---------------------------- MODULE Spec2Model ----------------------------
(***************************************************************************)
(* Model of the EMA/SMA crossover trading engine (src/trading.py), its     *)
(* indicators (src/indicators.py), the exchange client it calls            *)
(* (src/binance_client.py) and the threads that drive it (src/web_main.py).*)
(*                                                                         *)
(* Numbers.  Prices are small positive integers.  Quantities are counted   *)
(* in exchange steps (step size = 1).  Money (balance, fee, pnl) is        *)
(* counted in units of 1/FeeDen of one price*quantity unit, so that        *)
(*   fee = price * qty * fee_rate      is   price * qty        and         *)
(*   pnl = (exit - entry) * qty        is   (exit - entry) * qty * FeeDen. *)
(* Indicator values are exact rationals [n, d]; d = 0 stands for None.     *)
(* An Optional[float] that is None is the value None (= -1).               *)
(***************************************************************************)
EXTENDS Integers, Sequences, FiniteSets, TLC

\* ------------------------------------------------------------- bounds
MaxPrice == 2
MaxTime == 4
MaxTicks == 2
MaxHist == 2
MaxPolls == 2
MaxManual == 1
MaxRestarts == 1
MaxFaults == 1
MaxReconciles == 1

\* ------------------------------------------------- program constants
FeeDen == 2000
InitialBalance == 1000
max_retries == 2
ema_period == 1
ma_period == 2
series_maxlen == 3
NotionalCfg == 2

None == 0 - 1
NoSide == "NONE"
Prices == 1..MaxPrice
Sides == {"LONG", "SHORT"}
Opp(s) == IF s = "LONG" THEN "SHORT" ELSE "LONG"

Flat == [side |-> NoSide, entry_price |-> None, qty |-> None, open_fee |-> None]
Position(s, e, q, f) == [side |-> s, entry_price |-> e, qty |-> q, open_fee |-> f]

\* Python's `x or d` on an Optional number: d when x is None or 0.
OrElse(x, d) == IF x = None \/ x = 0 THEN d ELSE x

Last(s) == s[Len(s)]
LastN(s, n) == IF Len(s) <= n THEN s ELSE SubSeq(s, Len(s) - n + 1, Len(s))

RECURSIVE SumSeq(_)
SumSeq(s) == IF s = <<>> THEN 0 ELSE s[1] + SumSeq(Tail(s))

\* ------------------------------------------------------------ indicators
NoneR == [n |-> 0, d |-> 0]
IsNone(r) == r.d = 0
Leq(a, b) == a.n * b.d <= b.n * a.d

\* An sma that would never drop the oldest value of its window.
sma_window_never_dropping(values, period, i) ==
  IF period <= 0 THEN <<>> ELSE SubSeq(values, 1, i)

\* The window of sma after the i-th value: each value is appended and the
\* oldest is dropped while there are more than `period` of them, so a period
\* below 1 leaves it empty.
sma_window(values, period, i) ==
  IF period <= 0 THEN <<>>
  ELSE SubSeq(values, IF i > period THEN i - period + 1 ELSE 1, i)

\* sma(values, period): None while the window is shorter than the period, then
\* sum(window) / period.  A negative period divides the empty window's sum by
\* it, which is 0; with period 0 the division raises (sma_raises).
sma(values, period) ==
  [i \in 1..Len(values) |->
     LET window == sma_window(values, period, i)
     IN IF Len(window) < period THEN NoneR
        ELSE IF period > 0 THEN [n |-> SumSeq(window), d |-> period]
        ELSE [n |-> 0 - SumSeq(window), d |-> 0 - period]]

\* sum(window) / period raises ZeroDivisionError on the first value.
sma_raises(values, period) == period = 0 /\ values # <<>>

\* "if period <= 0: raise ValueError"
ema_raises(values, period) == period <= 0

\* ema(values, period): seeded with the mean of the first window, then
\* ema_t = v*k + ema_{t-1}*(1-k) with k = 2/(period+1).
RECURSIVE emaAt(_, _, _)
emaAt(values, period, i) ==
  IF i < period THEN NoneR
  ELSE IF i = period THEN [n |-> SumSeq(SubSeq(values, 1, period)), d |-> period]
  ELSE LET prev == emaAt(values, period, i - 1)
       IN [n |-> 2 * values[i] * prev.d + (period - 1) * prev.n,
           d |-> (period + 1) * prev.d]

\* An ema that would be seeded with the first sample of the window.
ema_seeded_with_first_sample(values, period) ==
  [i \in 1..Len(values) |->
     IF i < period THEN NoneR
     ELSE IF i = period THEN [n |-> values[1], d |-> 1]
     ELSE emaAt(values, period, i)]

ema(values, period) == [i \in 1..Len(values) |-> emaAt(values, period, i)]

NoCross == [golden_cross |-> FALSE, death_cross |-> FALSE]

ZeroR == [n |-> 0, d |-> 1]
AddR(a, b) == [n |-> a.n * b.d + b.n * a.d, d |-> a.d * b.d]
SubR(a, b) == [n |-> a.n * b.d - b.n * a.d, d |-> a.d * b.d]

\* A crossover that would ask for a strict inequality on the current point.
crossover_strict_on_current(el, ml, eps) ==
  IF Len(el) < 2 \/ Len(ml) < 2 THEN NoCross
  ELSE LET prev_ema == el[Len(el) - 1]
           curr_ema == el[Len(el)]
           prev_ma == ml[Len(ml) - 1]
           curr_ma == ml[Len(ml)]
       IN IF IsNone(prev_ema) \/ IsNone(curr_ema) \/ IsNone(prev_ma) \/ IsNone(curr_ma)
          THEN NoCross
          ELSE [golden_cross |-> Leq(prev_ema, AddR(prev_ma, eps))
                                   /\ ~Leq(curr_ema, SubR(curr_ma, eps)),
                death_cross |-> Leq(SubR(prev_ma, eps), prev_ema)
                                  /\ ~Leq(AddR(curr_ma, eps), curr_ema)]

\* crossover(ema_list, ma_list, eps): the last two points of each list.
crossover_eps(el, ml, eps) ==
  IF Len(el) < 2 \/ Len(ml) < 2 THEN NoCross
  ELSE LET prev_ema == el[Len(el) - 1]
           curr_ema == el[Len(el)]
           prev_ma == ml[Len(ml) - 1]
           curr_ma == ml[Len(ml)]
       IN IF IsNone(prev_ema) \/ IsNone(curr_ema) \/ IsNone(prev_ma) \/ IsNone(curr_ma)
          THEN NoCross
          ELSE [golden_cross |-> Leq(prev_ema, AddR(prev_ma, eps))
                                   /\ Leq(SubR(curr_ma, eps), curr_ema),
                death_cross |-> Leq(SubR(prev_ma, eps), prev_ema)
                                  /\ Leq(curr_ema, AddR(curr_ma, eps))]

\* The engine's call crossover(self.ema_list, self.ma_list), eps = 1e-8: below
\* every non-zero difference of two values of the model and above float
\* rounding noise, so `a <= b + eps` is the exact `a <= b` there.
crossover(el, ml) == crossover_eps(el, ml, ZeroR)

\* is_rising(series, lookback): the last `lookback` values are all defined and
\* non-decreasing.
is_rising(series, lookback) ==
  /\ Len(series) >= lookback
  /\ \A i \in (Len(series) - lookback + 1)..Len(series) : ~IsNone(series[i])
  /\ \A i \in (Len(series) - lookback + 1)..(Len(series) - 1) : Leq(series[i], series[i + 1])

\* config indicators.use_slope (default True): stored by __init__, read nowhere.
use_slope == TRUE

\* The arguments the indicator functions are run on when they run on their
\* own: every short series of small samples with every period from -1 up, and
\* for crossover every pair of short lists of values (None included) with a
\* tolerance of 0, 1/2 or 1, and the lists EMA(3) and SMA(5) give on the
\* prefixes of the closes 10,10,10,10,10,12,14,16,18,20.
MaxSeriesLen == 3
MaxSample == 3
MaxPeriod == 3
MaxListLen == 2
SampleSeries == UNION {[1..n -> 1..MaxSample] : n \in 0..MaxSeriesLen}
Periods == (0 - 1)..MaxPeriod
ListValues == {NoneR} \cup {[n |-> v, d |-> 1] : v \in 1..MaxSample}
Lists == UNION {[1..n -> ListValues] : n \in 0..MaxListLen}
Epsilons == {ZeroR, [n |-> 1, d |-> 2], [n |-> 1, d |-> 1]}
RisingCloses == <<10, 10, 10, 10, 10, 12, 14, 16, 18, 20>>
RisingInputs ==
  {[values |-> SubSeq(RisingCloses, 1, n), period |-> 0,
    el |-> ema(SubSeq(RisingCloses, 1, n), 3), ml |-> sma(SubSeq(RisingCloses, 1, n), 5),
    eps |-> ZeroR] : n \in 1..Len(RisingCloses)}
NoIn == [values |-> <<>>, period |-> 0, el |-> <<>>, ml |-> <<>>, eps |-> ZeroR]
NoIndOut == [fn |-> "", kind |-> "", val |-> <<>>, cross |-> NoCross]

\* ------------------------------------------------------------ quantities
\* The configurations _notional_and_qty is run on when it runs on its
\* own.  Quantities are counted in units of 0.0001 and prices are per unit, so
\* step 10 is a step size of 0.001 and price 2 a price of 20000.
MaxQtyPrice == 3
MaxLeverage == 2
MaxQtyCalls == 2
Capitals == {4, 8}
Percents == {50, 100}
StepSizes == {1, 2, 10}
MinNotionals == {0, 5, 10}
QtyConfigs ==
  [price : 1..MaxQtyPrice, initial_balance : Capitals, percent : Percents,
   leverage : 1..MaxLeverage, step_size : StepSizes, min_notional : MinNotionals]
NoQtyConfig ==
  [price |-> 0, initial_balance |-> 0, percent |-> 0, leverage |-> 0, step_size |-> 0,
   min_notional |-> 0]

\* A sizing that would round the raised quantity down to the step.
notional_and_qty_rounding_down(notional, price, step, min_notional) ==
  LET q0 == (notional \div (price * step)) * step
  IN IF min_notional > 0 /\ price * q0 < min_notional
     THEN ((min_notional \div price) \div step) * step
     ELSE q0

\* _notional_and_qty: floor notional/price to the step, then raise to the
\* minimum notional (ceil to the step) when price*qty is below it.
CeilDiv(a, b) == (a + b - 1) \div b
notional_and_qty(notional, price, step, min_notional) ==
  LET q0 == (notional \div (price * step)) * step
  IN IF min_notional > 0 /\ price * q0 < min_notional
     THEN CeilDiv(CeilDiv(min_notional, price), step) * step
     ELSE q0


\* ----------------------------------------------------------------- state
VARIABLES
  test_mode,        \* config trading.test_mode; FALSE = live with API keys
  client_prefer,    \* the client's position query takes prefer_side
  use_closed_only,  \* config indicators.use_closed_only
  position,         \* self.position
  balance,          \* self.balance
  timestamps, closes, ema_list, ma_list,
  klines,           \* table klines: the close_time of every row
  trades,           \* table trades
  wallet,           \* table wallet: the balance of every row
  postab,           \* table position
  ex,               \* the exchange's positions, one per side (hedge mode)
  exSeen,           \* what its position query reports; lags ex after a fill
  exWallet,         \* totalWalletBalance the account endpoint reports
  pc,               \* where the running handler stands; "down" / "idle" between
  k,                \* the kline event being handled
  cross,            \* crossover(...) of this evaluation
  want,             \* side argument of the running _open_with_confirm / prev_side
  ctx,              \* which call site of on_realtime_kline the running call returns to
  attempt,          \* loop variable of _open_with_confirm / _close_with_confirm
  polls,            \* polls made by the running _wait_until
  res,              \* response of the last order submission
  ok,               \* result of the last _open_position / _close_position
  snap,             \* ledger and position when the running *_with_confirm was entered
  wcret,            \* the last *_with_confirm that returned, and its result
  ev,               \* what this evaluation has done so far
  order,            \* the last order this evaluation has submitted
  nticks, nmanual, nrestarts,
  nfaults,          \* failed, incomplete or stale exchange answers so far
  rpc,              \* where the kline reconciler thread stands
  rbuf,             \* the klines it is ingesting
  nrec,
  wpc,              \* where a _wait_until call run on its own stands
  now,              \* time.time(), in units of the shortest poll interval
  deadline, interval,
  wchk,             \* outcome of its last check_fn(): "true", "false", "raise"
  wret,             \* its return value
  spc,              \* where a status() call on the web thread stands
  srp,              \* its real_pos
  sside, sentry, sqty,   \* its locals side, entry_price, qty_coin
  sout,             \* out["position"] of the last status() that returned
  nstatus,
  qcfg,             \* the configuration and price of _notional_and_qty calls run on their own
  qret,             \* the quantities those calls returned, in order
  tret,             \* what the last totals() returned
  iin,              \* the arguments of an indicator function run on its own
  iout              \* what it returned, or the exception it raised

vars == <<test_mode, client_prefer, use_closed_only, position, balance, timestamps, closes,
          ema_list, ma_list, klines, trades, wallet, postab, ex, exSeen, exWallet,
          pc, k, cross, want, ctx, attempt, polls, res, ok, snap, wcret, ev, order,
          nticks, nmanual, nrestarts, nfaults, rpc, rbuf, nrec,
          wpc, now, deadline, interval, wchk, wret,
          spc, srp, sside, sentry, sqty, sout, nstatus, qcfg, qret, tret, iin, iout>>

engineVars == <<test_mode, client_prefer, use_closed_only, position, balance, timestamps,
                closes, ema_list, ma_list, klines, trades, wallet, postab, ex, exSeen,
                exWallet, pc, k, cross, want, ctx, attempt, polls, res, ok, snap, wcret, ev,
                order, nticks, nmanual, nrestarts, nfaults, rpc, rbuf, nrec>>
waitVars == <<wpc, now, deadline, interval, wchk, wret>>
\* The frames of the functions that are also run on their own.
statusVars == <<spc, srp, sside, sentry, sqty, sout, nstatus>>
qtyVars == <<qcfg, qret>>
totalsVars == <<tret>>
indVars == <<iin, iout>>
unitVars == <<waitVars, statusVars, qtyVars, totalsVars, indVars>>
exceptWait == <<engineVars, statusVars, qtyVars, totalsVars, indVars>>
exceptStatus == <<engineVars, waitVars, qtyVars, totalsVars, indVars>>
exceptQty == <<engineVars, waitVars, statusVars, totalsVars, indVars>>
exceptTotals == <<engineVars, waitVars, statusVars, qtyVars, indVars>>
exceptInd == <<engineVars, waitVars, statusVars, qtyVars, totalsVars>>

cfgVars == <<test_mode, client_prefer, use_closed_only>>
seriesVars == <<timestamps, closes, ema_list, ma_list>>
ledgerVars == <<position, balance, trades, wallet, postab>>
exVars == <<ex, exSeen, exWallet>>
countVars == <<nticks, nmanual, nrestarts>>
recVars == <<rpc, rbuf, nrec>>

live == ~test_mode
\* self._dual_side: the account is in hedge mode (auto_set_dual_side switches
\* it on at startup), one position per side.
dual_side == TRUE
initial_balance == InitialBalance * FeeDen

\* ------------------------------------------------------------- exchange
NoPos == [amt |-> 0, entry |-> 0]
ExFlat == [LONG |-> NoPos, SHORT |-> NoPos]
MaxExQty == 2 * NotionalCfg

QNone == [kind |-> "none", amt |-> 0, entry |-> None]
QRaise == [kind |-> "raise", amt |-> 0, entry |-> None]
Signed(s, a) == IF s = "LONG" THEN a ELSE 0 - a
Abs(x) == IF x < 0 THEN 0 - x ELSE x

\* The record the client builds from one entry of the account's positions:
\* positionAmt (signed) and entryPrice (None when the field is absent).
Records(v, s) ==
  {[kind |-> "rec", amt |-> Signed(s, v[s].amt), entry |-> e] :
     e \in IF v[s].amt = 0 THEN {v[s].entry} ELSE {v[s].entry, None}}

\* BinanceClient.get_futures_position(symbol): None on any failure, else the
\* first entry with a non-zero amount, else the first entry.
get_futures_position(v) ==
  {QNone} \cup
  (IF \E s \in Sides : v[s].amt # 0
   THEN UNION {Records(v, s) : s \in {t \in Sides : v[t].amt # 0}}
   ELSE Records(v, "LONG"))

\* The same query with prefer_side=...: the client of src/ declares no such
\* parameter, so the call raises (TypeError); a client that implements the
\* collaborator interface query_position(symbol, prefer_side?) answers with
\* that side's entry, or None on failure.
query_position(v, s) == {QNone} \cup Records(v, s)
get_futures_position_prefer(v, s) ==
  IF client_prefer THEN query_position(v, s) ELSE {QRaise}

\* bool(rp and rp.get("positionAmt") is not None and abs(float(...)) > 0)
has_pos(rp) == rp.kind = "rec" /\ rp.amt # 0

\* What a position query can see: the lagging view, or the truth (and from
\* then on the view has caught up).
Views == {exSeen, ex}

\* The answers that count as faults of the exchange: a stale view, a failed
\* query, a position entry without its entryPrice, an order that is not
\* filled or is filled away from the candle's close.
ViewCost(v) == IF v # ex THEN 1 ELSE 0
AnswerCost(q) ==
  IF q.kind = "none" \/ (q.kind = "rec" /\ q.amt # 0 /\ q.entry = None) THEN 1 ELSE 0
OrderCost(r, price) == IF r.status = "FILLED" /\ r.avgPrice = price THEN 0 ELSE 1
\* MaxFaults of them in a run, and one more for the answer to the last order
\* of the open leg of a reversal whose close was confirmed.
FaultBudget ==
  MaxFaults + (IF ev.rev /\ ev.closed /\ pc = "open_order" /\ attempt = max_retries
               THEN 1 ELSE 0)
Charge(n) == (n = 0 \/ nfaults + n <= FaultBudget) /\ nfaults' = nfaults + n

\* create_futures_market_order answers.
RError == [kind |-> "error", status |-> "", cumQty |-> None, avgPrice |-> None]
RNoResp == [kind |-> "none", status |-> "", cumQty |-> None, avgPrice |-> None]
RRaise == [kind |-> "raise", status |-> "", cumQty |-> None, avgPrice |-> None]
RNew == [kind |-> "resp", status |-> "NEW", cumQty |-> 0, avgPrice |-> 0]
RFilled(q, p) == [kind |-> "resp", status |-> "FILLED", cumQty |-> q, avgPrice |-> p]
RPartial(q, p) ==
  [kind |-> "resp", status |-> "PARTIALLY_FILLED", cumQty |-> q, avgPrice |-> p]
NoRes == [kind |-> "", status |-> "", cumQty |-> None, avgPrice |-> None]
Failures == {RError, RNoResp, RRaise, RNew}

\* The exchange fills an opening order in full or not at all.
OpenAnswers(s, q) ==
  Failures \cup
  (IF q > 0 /\ ex[s].amt + q <= MaxExQty THEN {RFilled(q, p) : p \in Prices} ELSE {})

\* A closing order is filled only when that side holds at least its quantity:
\* in full, or in part.
CloseAnswers(s, q) ==
  Failures \cup
  (IF q > 0 /\ q <= ex[s].amt
   THEN {RFilled(q, p) : p \in Prices} \cup {RPartial(c, p) : c \in 1..(q - 1), p \in Prices}
   ELSE {})

ExAfterOpen(s, r) ==
  IF r.status = "FILLED"
  THEN [ex EXCEPT ![s] = [amt |-> @.amt + r.cumQty,
                          entry |-> IF @.amt = 0 THEN r.avgPrice ELSE @.entry]]
  ELSE ex

\* The account's wallet balance pays the commission of a fill and takes the
\* realised profit of a closing fill.
WalletAfterOpen(r) ==
  IF r.status = "FILLED" THEN exWallet - r.avgPrice * r.cumQty ELSE exWallet

WalletAfterClose(s, r) ==
  IF r.status \in {"FILLED", "PARTIALLY_FILLED"}
  THEN exWallet + Signed(s, r.avgPrice - ex[s].entry) * r.cumQty * FeeDen
                - r.avgPrice * r.cumQty
  ELSE exWallet

ExAfterClose(s, r) ==
  IF r.status \in {"FILLED", "PARTIALLY_FILLED"}
  THEN [ex EXCEPT ![s] = IF @.amt = r.cumQty THEN NoPos
                         ELSE [amt |-> @.amt - r.cumQty, entry |-> @.entry]]
  ELSE ex

\* ------------------------------------------------------------- ledger
\* _save_position: no row when Flat, else one row appended.
save_position(tab, pos) ==
  IF pos.side = NoSide THEN tab
  ELSE Append(tab, [side |-> pos.side,
                    entry_price |-> OrElse(pos.entry_price, 0),
                    qty |-> OrElse(pos.qty, 0),
                    open_fee |-> OrElse(pos.open_fee, 0)])

\* _clear_position then _save_position
overwrite_position(pos) == save_position(<<>>, pos)

TradeRow(side, price, qty, fee, pnl, bal) ==
  [side |-> side, price |-> price, qty |-> qty, fee |-> fee, pnl |-> pnl,
   balance_after |-> bal]

\* _restore_balance_from_wallet, test mode: the latest wallet row, when any.
restore_balance(w, bal) == IF w # <<>> THEN Last(w) ELSE bal

RECURSIVE LastOpenIdx(_, _)
LastOpenIdx(t, i) ==
  IF i = 0 THEN 0
  ELSE IF t[i].side \in Sides THEN i ELSE LastOpenIdx(t, i - 1)

RECURSIVE FirstOpenIdx(_, _)
FirstOpenIdx(t, i) ==
  IF i > Len(t) THEN 0
  ELSE IF t[i].side \in Sides THEN i ELSE FirstOpenIdx(t, i + 1)

\* A recovery whose fallback would look at the earliest open trade.
restore_open_position_from_first_open(tab, t, pos) ==
  IF tab # <<>>
  THEN LET row == Last(tab)
       IN Position(row.side, row.entry_price, row.qty, OrElse(row.open_fee, 0))
  ELSE LET i == FirstOpenIdx(t, 1)
       IN IF i > 0 /\ ~(\E j \in (i + 1)..Len(t) : t[j].side = "CLOSE")
          THEN Position(t[i].side, t[i].price, t[i].qty, OrElse(t[i].fee, 0))
          ELSE pos

\* _restore_open_position: the latest row of the position table; failing that
\* the latest open trade, when no CLOSE follows it.
restore_open_position(tab, t, pos) ==
  IF tab # <<>>
  THEN LET row == Last(tab)
       IN Position(row.side, row.entry_price, row.qty, OrElse(row.open_fee, 0))
  ELSE LET i == LastOpenIdx(t, Len(t))
       IN IF i > 0 /\ ~(\E j \in (i + 1)..Len(t) : t[j].side = "CLOSE")
          THEN Position(t[i].side, t[i].price, t[i].qty, OrElse(t[i].fee, 0))
          ELSE pos

\* An adoption that would record an estimated open fee.
adopt_with_estimated_fee(rp, dflt) ==
  Position(IF rp.amt > 0 THEN "LONG" ELSE "SHORT", OrElse(rp.entry, dflt), Abs(rp.amt),
           OrElse(rp.entry, dflt) * Abs(rp.amt))

\* The position TradingEngine.__init__ / on_realtime_kline adopt from a
\* query answer; `dflt` is what stands in for a missing or zero entryPrice.
adopt(rp, dflt) ==
  Position(IF rp.amt > 0 THEN "LONG" ELSE "SHORT", OrElse(rp.entry, dflt), Abs(rp.amt), 0)


\* status()["position"]: the exchange's answer when live and there is one,
\* else the local Position.
status(pos, rp) ==
  IF live /\ rp.kind = "rec"
  THEN [side |-> IF rp.amt > 0 THEN "LONG" ELSE IF rp.amt < 0 THEN "SHORT" ELSE NoSide,
        entry_price |-> OrElse(OrElse(rp.entry, OrElse(pos.entry_price, 0)), None),
        qty |-> Abs(rp.amt)]
  ELSE [side |-> pos.side, entry_price |-> pos.entry_price, qty |-> pos.qty]

\* ------------------------------------------------------------- totals
\* In totals() amounts are counted in units of 1/MicroDen of 0.000001, so that
\* round(x, 6) is the rounding to a multiple of MicroDen, ties to even.
MicroDen == 10
round6(x) ==
  LET q == x \div MicroDen
      r == x % MicroDen
  IN IF 2 * r < MicroDen THEN q * MicroDen
     ELSE IF 2 * r > MicroDen THEN (q + 1) * MicroDen
     ELSE IF q % 2 = 0 THEN q * MicroDen ELSE (q + 1) * MicroDen

RECURSIVE SumPnl(_, _)
SumPnl(t, sides) ==
  IF t = <<>> THEN 0
  ELSE (IF Head(t).side \in sides THEN Head(t).pnl ELSE 0) + SumPnl(Tail(t), sides)

RECURSIVE SumFee(_)
SumFee(t) == IF t = <<>> THEN 0 ELSE Head(t).fee + SumFee(Tail(t))

NoTotals ==
  [total_pnl |-> 0, total_fee |-> 0, trade_count |-> 0 - 1, roi |-> [n |-> 0, d |-> 1],
   base_balance |-> 0]

\* A totals() that would add up the pnl of every record, opens included.
totals_over_every_record(t, w) ==
  LET total_pnl == SumPnl(t, {"LONG", "SHORT", "CLOSE"})
      base_balance == IF w # <<>> THEN w[1] ELSE initial_balance
  IN [total_pnl |-> round6(total_pnl),
      total_fee |-> round6(SumFee(t)),
      trade_count |-> Cardinality({i \in 1..Len(t) : t[i].side = "CLOSE"}),
      roi |-> IF base_balance > 0 THEN [n |-> total_pnl, d |-> base_balance]
              ELSE [n |-> 0, d |-> 1],
      base_balance |-> base_balance]

\* totals() on the trades t and the wallet rows w.
totals(t, w) ==
  LET total_pnl == SumPnl(t, {"CLOSE"})
      base_balance == IF w # <<>> THEN w[1] ELSE initial_balance
  IN [total_pnl |-> round6(total_pnl),
      total_fee |-> round6(SumFee(t)),
      trade_count |-> Cardinality({i \in 1..Len(t) : t[i].side = "CLOSE"}),
      roi |-> IF base_balance > 0 THEN [n |-> total_pnl, d |-> base_balance]
              ELSE [n |-> 0, d |-> 1],
      base_balance |-> base_balance]

\* ------------------------------------------------------------- control
NoK == [close_time |-> 0, close |-> 0, is_final |-> FALSE]
NoRet == [op |-> "", ok |-> FALSE]
NoSnap == [position |-> Flat, balance |-> 0, ntrades |-> 0, nwallet |-> 0, postab |-> <<>>]
NoEv == [start |-> NoSide, rev |-> FALSE, cleared |-> FALSE, closed |-> FALSE,
         n_open |-> 0, n_close |-> 0]

NoOut == [side |-> "", entry_price |-> None, qty |-> None]
NoOrder == [kind |-> "", side |-> "", quantity |-> None, reduce_only |-> FALSE,
            position_side |-> ""]

ctlVars == <<pc, want, ctx, attempt, polls, snap, wcret>>

Goto(l) ==
  /\ pc' = l
  /\ UNCHANGED <<want, ctx, attempt, polls, snap, wcret>>

\* Enter _open_with_confirm(side) / _close_with_confirm(prev_side) from call
\* site c, the engine holding position pos.
Call(l, side, c, pos) ==
  /\ pc' = l
  /\ want' = side
  /\ ctx' = c
  /\ attempt' = 1
  /\ polls' = 0
  /\ snap' = [position |-> pos, balance |-> balance, ntrades |-> Len(trades),
              nwallet |-> Len(wallet), postab |-> postab]
  /\ wcret' = NoRet

\* An engine that would evaluate the signal on non-final ticks as well.
Decide_on_every_tick(kk, cr, pos) ==
  IF pos.side = NoSide
  THEN IF cr.golden_cross \/ cr.death_cross
       THEN LET side == IF cr.golden_cross THEN "LONG" ELSE "SHORT"
            IN /\ ev' = [NoEv EXCEPT !.start = NoSide]
               /\ IF kk.is_final /\ live
                  THEN /\ pc' = "flat_q1"
                       /\ want' = side
                       /\ UNCHANGED <<ctx, attempt, polls, snap, wcret>>
                  ELSE Call("open_order", side, "open", pos)
       ELSE Goto("finish") /\ ev' = NoEv
  ELSE IF \/ pos.side = "LONG" /\ cr.death_cross
          \/ pos.side = "SHORT" /\ cr.golden_cross
  THEN /\ ev' = [NoEv EXCEPT !.start = pos.side, !.rev = TRUE]
       /\ IF kk.is_final /\ live
          THEN /\ pc' = "rev_q1"
               /\ want' = Opp(pos.side)
               /\ UNCHANGED <<ctx, attempt, polls, snap, wcret>>
          ELSE Call("close_order", Opp(pos.side), "plain", pos)
  ELSE Goto("finish") /\ ev' = NoEv

\* An engine that would close and reverse a held position on either cross.
Decide_reversing_on_any_cross(kk, cr, pos) ==
  IF use_closed_only /\ ~kk.is_final
  THEN Goto("finish") /\ ev' = NoEv
  ELSE IF pos.side = NoSide
  THEN IF cr.golden_cross \/ cr.death_cross
       THEN LET side == IF cr.golden_cross THEN "LONG" ELSE "SHORT"
            IN /\ ev' = [NoEv EXCEPT !.start = NoSide]
               /\ IF kk.is_final /\ live
                  THEN /\ pc' = "flat_q1"
                       /\ want' = side
                       /\ UNCHANGED <<ctx, attempt, polls, snap, wcret>>
                  ELSE Call("open_order", side, "open", pos)
       ELSE Goto("finish") /\ ev' = NoEv
  ELSE IF cr.golden_cross \/ cr.death_cross
  THEN /\ ev' = [NoEv EXCEPT !.start = pos.side, !.rev = TRUE]
       /\ IF kk.is_final /\ live
          THEN /\ pc' = "rev_q1"
               /\ want' = Opp(pos.side)
               /\ UNCHANGED <<ctx, attempt, polls, snap, wcret>>
          ELSE Call("close_order", Opp(pos.side), "plain", pos)
  ELSE Goto("finish") /\ ev' = NoEv

\* on_realtime_kline from "if self.use_closed_only and not is_final: return"
\* down to the choice of the branch, the engine holding position pos.
Decide(kk, cr, pos) ==
  IF use_closed_only /\ ~kk.is_final
  THEN Goto("finish") /\ ev' = NoEv
  ELSE IF pos.side = NoSide
  THEN IF cr.golden_cross \/ cr.death_cross
       THEN LET side == IF cr.golden_cross THEN "LONG" ELSE "SHORT"
            IN /\ ev' = [NoEv EXCEPT !.start = NoSide]
               /\ IF kk.is_final /\ live
                  THEN /\ pc' = "flat_q1"
                       /\ want' = side
                       /\ UNCHANGED <<ctx, attempt, polls, snap, wcret>>
                  ELSE Call("open_order", side, "open", pos)
       ELSE Goto("finish") /\ ev' = NoEv
  ELSE IF \/ pos.side = "LONG" /\ cr.death_cross
          \/ pos.side = "SHORT" /\ cr.golden_cross
  THEN /\ ev' = [NoEv EXCEPT !.start = pos.side, !.rev = TRUE]
       /\ IF kk.is_final /\ live
          THEN /\ pc' = "rev_q1"
               /\ want' = Opp(pos.side)
               /\ UNCHANGED <<ctx, attempt, polls, snap, wcret>>
          ELSE Call("close_order", Opp(pos.side), "plain", pos)
  ELSE Goto("finish") /\ ev' = NoEv

\* A trim that would cut the indicator lists of the untrimmed series.
trim_series_slicing_indicators(ts, cs) ==
  LET t == IF series_maxlen > 0 THEN LastN(ts, series_maxlen) ELSE ts
      c == IF series_maxlen > 0 /\ Len(ts) > series_maxlen
           THEN LastN(cs, series_maxlen) ELSE cs
  IN [timestamps |-> t, closes |-> c,
      ema_list |-> LastN(ema(cs, ema_period), Len(c)),
      ma_list |-> LastN(sma(cs, ma_period), Len(c))]

\* _trim_series_if_needed(recalc=True) on the series (ts, cs).
trim_series(ts, cs) ==
  LET t == IF series_maxlen > 0 THEN LastN(ts, series_maxlen) ELSE ts
      c == IF series_maxlen > 0 /\ Len(ts) > series_maxlen
           THEN LastN(cs, series_maxlen) ELSE cs
  IN [timestamps |-> t, closes |-> c,
      ema_list |-> ema(c, ema_period), ma_list |-> sma(c, ma_period)]

SetSeries(r) ==
  /\ timestamps' = r.timestamps
  /\ closes' = r.closes
  /\ ema_list' = r.ema_list
  /\ ma_list' = r.ma_list

\* ------------------------------------------------------------- startup
\* TradingEngine.__init__: q1, q2 are the answers of its two position queries,
\* tot says whether the account totals could be read.
Construct(q1, q2, tot) ==
  LET pos1 == IF live /\ has_pos(q1)
              THEN Position(IF q1.amt > 0 THEN "LONG" ELSE "SHORT", q1.entry, Abs(q1.amt), 0)
              ELSE Flat
      bal1 == IF live /\ tot THEN exWallet ELSE initial_balance
      bal2 == IF test_mode THEN restore_balance(wallet, bal1) ELSE bal1
      pos2 == restore_open_position(postab, trades, pos1)
      sync == live /\ has_pos(q2)
      pos3 == IF sync
              THEN Position(IF q2.amt > 0 THEN "LONG" ELSE "SHORT",
                            OrElse(q2.entry, None), Abs(q2.amt), 0)
              ELSE pos2
  IN /\ balance' = bal2
     /\ wallet' = IF wallet = <<>> THEN <<bal2>> ELSE wallet
     /\ position' = pos3
     /\ postab' = IF sync THEN overwrite_position(pos3) ELSE postab
     /\ UNCHANGED trades
     /\ SetSeries([timestamps |-> <<>>, closes |-> <<>>, ema_list |-> <<>>, ma_list |-> <<>>])
     /\ pc' = "hist"
     /\ k' = NoK /\ cross' = NoCross /\ want' = "LONG" /\ ctx' = "" /\ attempt' = 0
     /\ polls' = 0 /\ res' = NoRes /\ ok' = FALSE /\ snap' = NoSnap /\ wcret' = NoRet
     /\ ev' = NoEv
     /\ order' = NoOrder

Init ==
  /\ test_mode \in BOOLEAN
  /\ client_prefer \in (IF test_mode THEN {FALSE} ELSE BOOLEAN)
  /\ use_closed_only \in BOOLEAN
  /\ position = Flat
  /\ balance = initial_balance
  /\ timestamps = <<>> /\ closes = <<>> /\ ema_list = <<>> /\ ma_list = <<>>
  /\ klines = <<>> /\ trades = <<>> /\ wallet = <<>> /\ postab = <<>>
  /\ ex = ExFlat /\ exSeen = ExFlat /\ exWallet = initial_balance
  /\ pc = "down"
  /\ k = NoK /\ cross = NoCross /\ want = "LONG" /\ ctx = "" /\ attempt = 0
  /\ polls = 0 /\ res = NoRes /\ ok = FALSE /\ snap = NoSnap /\ wcret = NoRet
  /\ ev = NoEv
  /\ order = NoOrder
  /\ nticks = 0 /\ nmanual = 0 /\ nrestarts = 0 /\ nfaults = 0
  /\ rpc = "idle" /\ rbuf = <<>> /\ nrec = 0
  /\ wpc = "idle" /\ now = 0 /\ deadline = 0 /\ interval = 0 /\ wchk = "" /\ wret = FALSE
  /\ spc = "idle" /\ srp = QNone /\ sside = NoSide /\ sentry = None /\ sqty = None
  /\ sout = NoOut /\ nstatus = 0
  /\ qcfg = NoQtyConfig /\ qret = <<>>
  /\ tret = NoTotals
  /\ iin = NoIn /\ iout = NoIndOut

\* The process starts: main() constructs the engine.
Start ==
  /\ pc = "down"
  /\ \E q1 \in get_futures_position(ex), q2 \in get_futures_position(ex), tot \in BOOLEAN :
       /\ (test_mode => q1 = QNone /\ q2 = QNone /\ tot)
       /\ Charge(IF test_mode THEN 0
                 ELSE AnswerCost(q1) + AnswerCost(q2) + (IF tot THEN 0 ELSE 1))
       /\ Construct(q1, q2, tot)
  /\ UNCHANGED <<cfgVars, unitVars, recVars, klines, exVars, countVars>>

\* The process is stopped between two handlers and started again on the same
\* database.
Restart ==
  /\ pc = "idle"
  /\ nrestarts < MaxRestarts
  /\ nrestarts' = nrestarts + 1
  /\ \E q1 \in get_futures_position(ex), q2 \in get_futures_position(ex), tot \in BOOLEAN :
       /\ (test_mode => q1 = QNone /\ q2 = QNone /\ tot)
       /\ Charge(IF test_mode THEN 0
                 ELSE AnswerCost(q1) + AnswerCost(q2) + (IF tot THEN 0 ELSE 1))
       /\ Construct(q1, q2, tot)
  /\ UNCHANGED <<cfgVars, unitVars, recVars, klines, exVars, nticks, nmanual>>

\* ingest_historical(klines): main() feeds the history it fetched, oldest first.
ingest_historical(hist) ==
  /\ klines' = klines \o [i \in 1..Len(hist) |-> hist[i].close_time]
  /\ SetSeries(trim_series(timestamps \o [i \in 1..Len(hist) |-> hist[i].close_time],
                           closes \o [i \in 1..Len(hist) |-> hist[i].close]))

Histories ==
  UNION {[1..n -> Prices] : n \in 0..MaxHist}

IngestHistory ==
  /\ pc = "hist"
  /\ \E h \in Histories :
       ingest_historical([i \in 1..Len(h) |-> [close_time |-> i, close |-> h[i], is_final |-> TRUE]])
  /\ pc' = "idle"
  /\ UNCHANGED <<cfgVars, unitVars, order, recVars, ledgerVars, exVars, k, cross, want, ctx, attempt, polls,
                 res, ok, snap, wcret, ev, countVars, nfaults>>

\* Somebody trades on the account outside the engine, between two handlers,
\* at the last price the engine has seen.
ManualPrice == IF closes = <<>> THEN 1 ELSE Last(closes)

Manual ==
  /\ pc \in {"down", "idle"}
  /\ live
  /\ nmanual < MaxManual
  /\ nmanual' = nmanual + 1
  /\ \E s \in Sides :
       /\ ex' = [ex EXCEPT ![s] = IF @.amt = 0 THEN [amt |-> 1, entry |-> ManualPrice]
                                  ELSE NoPos]
       /\ exWallet' = exWallet - ManualPrice
  /\ exSeen' = ex'
  /\ UNCHANGED <<cfgVars, unitVars, order, recVars, ledgerVars, seriesVars, klines, pc, k, cross, want, ctx,
                 attempt, polls, res, ok, snap, wcret, ev, nticks, nrestarts, nfaults>>


\* ------------------------------------------------------ on_realtime_kline
\* The series after the tick (close_time ct, price p) is taken in.
push_tick(ts, cs, ct, p) ==
  IF ts = <<>> \/ ct # Last(ts)
  THEN trim_series(Append(ts, ct), Append(cs, p))
  ELSE trim_series(ts, [cs EXCEPT ![Len(cs)] = p])

\* The close_time values the stream can deliver next.
NextTimes == IF timestamps = <<>> THEN {1}
             ELSE {t \in {Last(timestamps), Last(timestamps) + 1} : t <= MaxTime}

\* on_realtime_kline(k), from its entry to the first exchange call.
Tick ==
  /\ pc = "idle"
  /\ nticks < MaxTicks
  /\ nticks' = nticks + 1
  /\ \E ct \in NextTimes, p \in Prices, fin \in BOOLEAN :
       LET kk == [close_time |-> ct, close |-> p, is_final |-> fin]
           \* "self.closes[-1] = price" on an empty closes raises IndexError
           raises == /\ ~(use_closed_only /\ ~fin)
                     /\ timestamps # <<>> /\ ct = Last(timestamps) /\ closes = <<>>
           ser == IF (use_closed_only /\ ~fin) \/ raises
                  THEN [timestamps |-> timestamps, closes |-> closes,
                        ema_list |-> ema_list, ma_list |-> ma_list]
                  ELSE push_tick(timestamps, closes, ct, p)
           cr == crossover(ser.ema_list, ser.ma_list)
       IN /\ SetSeries(ser)
          /\ IF \/ raises
                \/ ser.ema_list = <<>>
                \/ IsNone(Last(ser.ema_list))
                \/ IsNone(Last(ser.ma_list))
             THEN Goto("idle") /\ ev' = NoEv /\ k' = NoK /\ cross' = NoCross
             ELSE /\ k' = kk
                  /\ cross' = cr
                  /\ IF live /\ position.side = NoSide
                     THEN Goto("sync") /\ ev' = NoEv
                     ELSE Decide(kk, cr, position)
  /\ UNCHANGED <<cfgVars, unitVars, order, recVars, ledgerVars, klines, exVars, res, ok, nmanual, nrestarts, nfaults>>

\* Live and Flat: adopt a position the exchange reports (lines 598-616).
Sync ==
  /\ pc = "sync"
  /\ \E v \in Views : \E q \in get_futures_position(v) :
       /\ exSeen' = v
       /\ Charge(ViewCost(v) + AnswerCost(q))
       /\ position' = IF has_pos(q) THEN adopt(q, k.close) ELSE position
       /\ postab' = IF has_pos(q) THEN overwrite_position(position') ELSE postab
       /\ Decide(k, cross, position')
  /\ UNCHANGED <<cfgVars, unitVars, order, recVars, seriesVars, balance, trades, wallet, klines, ex, exWallet,
                 k, cross, res, ok, countVars>>

\* Flat branch, final candle, live: is the opposite side held? (633 / 687)
FlatQueryOpposite ==
  /\ pc = "flat_q1"
  /\ \E v \in Views : \E q \in get_futures_position_prefer(v, Opp(want)) :
       /\ exSeen' = v
       /\ Charge(ViewCost(v) + AnswerCost(q))
       /\ IF q.kind = "raise"
          THEN /\ position' = position
               /\ Call("open_order", want, "open", position)
          ELSE IF has_pos(q)
          THEN /\ position' = Position(Opp(want), IF q.entry # None THEN q.entry ELSE k.close,
                                       Abs(q.amt), OrElse(position.open_fee, 0))
               /\ Call("close_order", want, "flat", position')
          ELSE /\ position' = position
               /\ Goto("flat_q2")
  /\ UNCHANGED <<cfgVars, unitVars, order, recVars, seriesVars, balance, trades, wallet, postab, klines, ex,
                 exWallet, k, cross, res, ok, ev, countVars>>

\* Flat branch: is the wanted side already held? (656 and 666 / 710 and 720)
FlatQueryOwn ==
  /\ pc = "flat_q2"
  /\ \E v \in Views : \E q \in get_futures_position_prefer(v, want) :
       /\ exSeen' = v
       /\ Charge(ViewCost(v) + AnswerCost(q))
       /\ IF q.kind = "raise" THEN Call("open_order", want, "open", position)
          ELSE IF has_pos(q) THEN Goto("finish")
          ELSE Call("open_order", want, "open", position)
  /\ UNCHANGED <<cfgVars, unitVars, order, recVars, seriesVars, ledgerVars, klines, ex, exWallet, k, cross,
                 res, ok, ev, countVars>>

\* Reversal, final candle, live: is the held side still held? (750 / 800)
RevQueryHeld ==
  /\ pc = "rev_q1"
  /\ \E v \in Views : \E q \in get_futures_position_prefer(v, Opp(want)) :
       /\ exSeen' = v
       /\ Charge(ViewCost(v) + AnswerCost(q))
       /\ IF q.kind = "raise"
          THEN /\ position' = position
               /\ ev' = ev
               /\ Call("close_order", want, "plain", position)
          ELSE IF ~has_pos(q)
          THEN /\ position' = Flat
               /\ ev' = [ev EXCEPT !.cleared = TRUE]
               /\ Goto("rev_q2")
          ELSE /\ position' = Position(Opp(want),
                                       IF q.entry # None THEN q.entry ELSE position.entry_price,
                                       Abs(q.amt), OrElse(position.open_fee, 0))
               /\ ev' = ev
               /\ Call("close_order", want, "rev", position')
  /\ UNCHANGED <<cfgVars, unitVars, order, recVars, seriesVars, balance, trades, wallet, postab, klines, ex,
                 exWallet, k, cross, res, ok, countVars>>

\* Reversal: is the wanted side already held? (761 and 778 / 811 and 828)
RevQueryOpposite ==
  /\ pc = "rev_q2"
  /\ \E v \in Views : \E q \in get_futures_position_prefer(v, want) :
       /\ exSeen' = v
       /\ Charge(ViewCost(v) + AnswerCost(q))
       /\ IF q.kind = "raise" THEN Call("close_order", want, "plain", position)
          ELSE IF has_pos(q) THEN Goto("finish")
          ELSE Call("open_order", want, "open", position)
  /\ UNCHANGED <<cfgVars, unitVars, order, recVars, seriesVars, ledgerVars, klines, ex, exWallet, k, cross,
                 res, ok, ev, countVars>>


\* ------------------------------------------------- _open / _close_position
\* A gateway that would take any response of the exchange for a fill.
order_success_any_response(r) == r.kind = "resp"

\* "if (cum_qty is not None and float(cum_qty) > 0) or status == FILLED"
order_success(r) ==
  r.kind = "resp" /\ ((r.cumQty # None /\ r.cumQty > 0) \/ r.status = "FILLED")

exec_price_of(r, price) == IF r.avgPrice # None THEN r.avgPrice ELSE price
exec_qty_of(r, qty) == IF r.cumQty # None THEN r.cumQty ELSE qty

SetLedger(l) ==
  /\ position' = l.position
  /\ balance' = l.balance
  /\ trades' = l.trades
  /\ wallet' = l.wallet
  /\ postab' = l.postab

\* _open_position after the order went through (lines 968-975).
open_effect(side, exec_price, exec_qty) ==
  LET fee == exec_price * exec_qty
      bal == balance - fee
      pos == Position(side, exec_price, exec_qty, fee)
  IN [position |-> pos,
      balance |-> bal,
      trades |-> Append(trades, TradeRow(side, exec_price, exec_qty, fee, 0 - fee, bal)),
      wallet |-> Append(wallet, bal),
      postab |-> overwrite_position(pos)]

\* A close that would credit the balance with the net pnl, charging the open
\* fee a second time.
close_effect_crediting_net_pnl(exec_price, exec_qty) ==
  LET entry == position.entry_price
      gross == IF position.side = "LONG" THEN (exec_price - entry) * exec_qty * FeeDen
               ELSE IF position.side = "SHORT" THEN (entry - exec_price) * exec_qty * FeeDen
               ELSE 0
      fee == exec_price * exec_qty
      net == gross - fee - OrElse(position.open_fee, 0)
      bal == balance + net
  IN [position |-> Flat,
      balance |-> bal,
      trades |-> Append(trades, TradeRow("CLOSE", exec_price, exec_qty, fee, net, bal)),
      wallet |-> Append(wallet, bal),
      postab |-> <<>>]

\* A close that would record its pnl net of the close fee only.
close_effect_net_of_close_fee_only(exec_price, exec_qty) ==
  LET entry == position.entry_price
      gross == IF position.side = "LONG" THEN (exec_price - entry) * exec_qty * FeeDen
               ELSE IF position.side = "SHORT" THEN (entry - exec_price) * exec_qty * FeeDen
               ELSE 0
      fee == exec_price * exec_qty
      bal == balance + gross - fee
  IN [position |-> Flat,
      balance |-> bal,
      trades |-> Append(trades, TradeRow("CLOSE", exec_price, exec_qty, fee, gross - fee, bal)),
      wallet |-> Append(wallet, bal),
      postab |-> <<>>]

\* _close_position after the order went through (lines 1070-1092).
close_effect(exec_price, exec_qty) ==
  LET entry == position.entry_price
      gross == IF position.side = "LONG" THEN (exec_price - entry) * exec_qty * FeeDen
               ELSE IF position.side = "SHORT" THEN (entry - exec_price) * exec_qty * FeeDen
               ELSE 0
      fee == exec_price * exec_qty
      bal == balance + gross - fee
      net == gross - fee - OrElse(position.open_fee, 0)
  IN [position |-> Flat,
      balance |-> bal,
      trades |-> Append(trades, TradeRow("CLOSE", exec_price, exec_qty, fee, net, bal)),
      wallet |-> Append(wallet, bal),
      postab |-> <<>>]

order_qty(price) == notional_and_qty(NotionalCfg, price, 1, 0)

\* The arguments of create_futures_market_order in _open_position: a plain
\* market order, tagged with the position side in hedge mode.
open_order(side, qty) ==
  [kind |-> "open",
   side |-> IF side = "LONG" THEN "BUY" ELSE "SELL",
   quantity |-> qty,
   reduce_only |-> FALSE,
   position_side |-> IF dual_side THEN side ELSE ""]

\* The arguments of create_futures_market_order in _close_position, the
\* engine holding pos: ro_flag = (False if self._dual_side else True).
close_order(pos) ==
  [kind |-> "close",
   side |-> IF pos.side = "LONG" THEN "SELL" ELSE "BUY",
   quantity |-> pos.qty,
   reduce_only |-> ~dual_side,
   position_side |-> IF dual_side THEN pos.side ELSE ""]

\* A loop that would try again after every failed attempt.
NextAttempt_without_limit(l, op) ==
  /\ pc' = l
  /\ attempt' = attempt + 1
  /\ wcret' = wcret

\* The loop of *_with_confirm moves on after a failed attempt: the next
\* attempt, or "return False" after the last one.
NextAttempt(l, op) ==
  IF attempt < max_retries
  THEN /\ pc' = l
       /\ attempt' = attempt + 1
       /\ wcret' = wcret
  ELSE /\ pc' = IF op = "open" THEN "finish" ELSE "close_ret"
       /\ attempt' = attempt
       /\ wcret' = [op |-> op, ok |-> FALSE]

Return(op) ==
  /\ pc' = IF op = "open" THEN "finish" ELSE "close_ret"
  /\ attempt' = attempt
  /\ wcret' = [op |-> op, ok |-> TRUE]

\* One attempt of _open_with_confirm: _open_position(side, price).
OpenOrder ==
  /\ pc = "open_order"
  /\ ev' = [ev EXCEPT !.n_open = @ + 1]
  /\ polls' = 0
  /\ LET qty == order_qty(k.close)
     IN IF test_mode
        THEN /\ SetLedger(open_effect(want, k.close, qty))
             /\ res' = NoRes
             /\ ok' = TRUE
             /\ Return("open")
             /\ UNCHANGED <<ex, exSeen, exWallet, nfaults, order>>
        ELSE \E r \in OpenAnswers(want, qty) :
               /\ order' = open_order(want, qty)
               /\ res' = r
               /\ Charge(OrderCost(r, k.close))
               /\ ex' = ExAfterOpen(want, r)
               /\ exWallet' = WalletAfterOpen(r)
               /\ exSeen' = exSeen
               /\ ok' = order_success(r)
               /\ IF order_success(r)
                  THEN /\ SetLedger(open_effect(want, exec_price_of(r, k.close),
                                                exec_qty_of(r, qty)))
                       /\ pc' = "open_poll"
                       /\ UNCHANGED <<attempt, wcret>>
                  ELSE /\ UNCHANGED ledgerVars
                       /\ NextAttempt("open_order", "open")
  /\ UNCHANGED <<cfgVars, unitVars, recVars, seriesVars, klines, k, cross, want, ctx, snap, countVars>>

\* One poll of _wait_until(check_fn) inside _open_with_confirm.
OpenPoll ==
  /\ pc = "open_poll"
  /\ \E v \in Views : \E q \in get_futures_position_prefer(v, want) :
       /\ exSeen' = v
       /\ Charge(ViewCost(v) + AnswerCost(q))
       /\ IF has_pos(q)
          THEN Return("open") /\ polls' = polls
          ELSE /\ polls' = polls + 1
               /\ \E again \in BOOLEAN :
                    /\ again => polls + 1 < MaxPolls
                    /\ IF again THEN UNCHANGED <<pc, attempt, wcret>>
                       ELSE NextAttempt("open_order", "open")
  /\ UNCHANGED <<cfgVars, unitVars, order, recVars, seriesVars, ledgerVars, klines, ex, exWallet, k, cross, want,
                 ctx, res, ok, snap, ev, countVars>>

\* One attempt of _close_with_confirm: _close_position(price).
CloseOrder ==
  /\ pc = "close_order"
  /\ polls' = 0
  /\ IF position.side = NoSide \/ position.entry_price = None \/ position.qty = None
     THEN /\ ok' = FALSE
          /\ res' = NoRes
          /\ ev' = ev
          /\ NextAttempt("close_order", "close")
          /\ UNCHANGED <<ledgerVars, ex, exSeen, exWallet, nfaults, order>>
     ELSE IF test_mode
     THEN /\ SetLedger(close_effect(k.close, position.qty))
          /\ res' = NoRes
          /\ ok' = TRUE
          /\ ev' = [ev EXCEPT !.n_close = @ + 1, !.closed = TRUE]
          /\ Return("close")
          /\ UNCHANGED <<ex, exSeen, exWallet, nfaults, order>>
     ELSE \E r \in CloseAnswers(position.side, position.qty) :
            /\ order' = close_order(position)
            /\ res' = r
            /\ Charge(OrderCost(r, k.close))
            /\ ex' = ExAfterClose(position.side, r)
            /\ exWallet' = WalletAfterClose(position.side, r)
            /\ exSeen' = exSeen
            /\ ok' = order_success(r)
            /\ ev' = [ev EXCEPT !.n_close = @ + 1]
            /\ IF order_success(r)
               THEN /\ SetLedger(close_effect(exec_price_of(r, k.close),
                                              exec_qty_of(r, position.qty)))
                    /\ pc' = "close_poll"
                    /\ UNCHANGED <<attempt, wcret>>
               ELSE /\ UNCHANGED ledgerVars
                    /\ NextAttempt("close_order", "close")
  /\ UNCHANGED <<cfgVars, unitVars, recVars, seriesVars, klines, k, cross, want, ctx, snap, countVars>>

\* A check_fn that would restore the quantity held when the close was called.
residual_of_original_quantity(q, prev_side, pos) ==
  Position(prev_side,
           IF q.entry # None THEN q.entry ELSE OrElse(pos.entry_price, 0),
           snap.position.qty, OrElse(pos.open_fee, 0))

\* check_fn of _close_with_confirm: the position it leaves behind when the
\* exchange still reports one (line 1153).
residual(q, prev_side, pos) ==
  Position(prev_side,
           IF q.entry # None THEN q.entry ELSE OrElse(pos.entry_price, 0),
           Abs(q.amt), OrElse(pos.open_fee, 0))

\* One poll of _wait_until(check_fn) inside _close_with_confirm.
ClosePoll ==
  /\ pc = "close_poll"
  /\ \E v \in Views : \E q \in get_futures_position_prefer(v, Opp(want)) :
       /\ exSeen' = v
       /\ Charge(ViewCost(v) + AnswerCost(q))
       /\ IF q.kind # "raise" /\ ~has_pos(q)
          THEN /\ Return("close")
               /\ polls' = polls
               /\ position' = position
               /\ ev' = [ev EXCEPT !.closed = TRUE]
          ELSE /\ position' = IF has_pos(q) THEN residual(q, Opp(want), position)
                              ELSE position
               /\ ev' = ev
               /\ polls' = polls + 1
               /\ \E again \in BOOLEAN :
                    /\ again => polls + 1 < MaxPolls
                    /\ IF again THEN UNCHANGED <<pc, attempt, wcret>>
                       ELSE NextAttempt("close_order", "close")
  /\ UNCHANGED <<cfgVars, unitVars, order, recVars, seriesVars, balance, trades, wallet, postab, klines, ex,
                 exWallet, k, cross, want, ctx, res, ok, snap, countVars>>

\* A caller that would go on to the next leg whatever the close returned.
CloseReturn_ignoring_result ==
  /\ pc = "close_ret"
  /\ IF ctx = "flat" THEN Goto("flat_q2")
     ELSE IF ctx = "rev" THEN Goto("rev_q2")
     ELSE Call("open_order", want, "open", position)
  /\ UNCHANGED <<cfgVars, unitVars, order, recVars, seriesVars, ledgerVars, klines, exVars, k, cross, res, ok,
                 ev, countVars, nfaults>>

\* _close_with_confirm has returned to on_realtime_kline.
CloseReturn ==
  /\ pc = "close_ret"
  /\ IF ~wcret.ok THEN Goto("finish")
     ELSE IF ctx = "flat" THEN Goto("flat_q2")
     ELSE IF ctx = "rev" THEN Goto("rev_q2")
     ELSE Call("open_order", want, "open", position)
  /\ UNCHANGED <<cfgVars, unitVars, order, recVars, seriesVars, ledgerVars, klines, exVars, k, cross, res, ok,
                 ev, countVars, nfaults>>

\* The end of on_realtime_kline: a final candle is stored (lines 846-848).
Finish ==
  /\ pc = "finish"
  /\ klines' = IF k.is_final THEN Append(klines, k.close_time) ELSE klines
  /\ exSeen' = ex
  /\ pc' = "idle"
  /\ want' = "LONG" /\ ctx' = "" /\ attempt' = 0 /\ polls' = 0
  /\ res' = NoRes /\ ok' = FALSE /\ snap' = NoSnap /\ wcret' = NoRet /\ ev' = NoEv
  /\ order' = NoOrder
  /\ k' = NoK /\ cross' = NoCross
  /\ UNCHANGED <<cfgVars, unitVars, recVars, seriesVars, ledgerVars, ex, exWallet, countVars, nfaults>>

Next ==
  \/ Start
  \/ Restart
  \/ IngestHistory
  \/ Manual
  \/ Tick
  \/ Sync
  \/ FlatQueryOpposite
  \/ FlatQueryOwn
  \/ RevQueryHeld
  \/ RevQueryOpposite
  \/ OpenOrder
  \/ OpenPoll
  \/ CloseOrder
  \/ ClosePoll
  \/ CloseReturn
  \/ Finish

Spec == Init /\ [][Next]_vars


\* ------------------------------------------------------- the threads
\* web_main starts the stream thread, whose callback on_kline runs
\* on_realtime_kline (the steps above), and the kline reconciler thread, which
\* every check_ms fetches the candles at or after the latest stored close_time
\* and hands them to engine.ingest_historical.  Neither takes a lock.
latest_db_close_time == IF klines = <<>> THEN 0 ELSE Last(klines)

Chunks ==
  {<<[close_time |-> ct, close |-> p, is_final |-> TRUE]>> :
     ct \in {t \in {latest_db_close_time, latest_db_close_time + 1} : t >= 1 /\ t <= MaxTime},
     p \in Prices}

\* run(): "miss" is not empty, engine.ingest_historical(miss_sorted) is entered.
ReconcileFetch ==
  /\ rpc = "idle"
  /\ pc \notin {"down", "hist"}
  /\ nrec < MaxReconciles
  /\ nrec' = nrec + 1
  /\ \E c \in Chunks : rbuf' = c
  /\ rpc' = "append"
  /\ UNCHANGED <<cfgVars, unitVars, order, seriesVars, ledgerVars, klines, exVars, pc, k, cross, want, ctx,
                 attempt, polls, res, ok, snap, wcret, ev, countVars, nfaults>>

\* The loop body of ingest_historical, once per kline: the row is stored and
\* its close_time appended to timestamps ...
ReconcileAppend ==
  /\ rpc = "append"
  /\ klines' = Append(klines, Head(rbuf).close_time)
  /\ timestamps' = Append(timestamps, Head(rbuf).close_time)
  /\ rpc' = "append_close"
  /\ UNCHANGED <<cfgVars, unitVars, order, closes, ema_list, ma_list, ledgerVars, exVars, pc, k, cross,
                 want, ctx, attempt, polls, res, ok, snap, wcret, ev, countVars, nfaults, rbuf, nrec>>

\* ... and, in a statement of its own, its close appended to closes.
ReconcileAppendClose ==
  /\ rpc = "append_close"
  /\ closes' = Append(closes, Head(rbuf).close)
  /\ rbuf' = Tail(rbuf)
  /\ rpc' = IF Tail(rbuf) = <<>> THEN "trim" ELSE "append"
  /\ UNCHANGED <<cfgVars, unitVars, order, timestamps, ema_list, ma_list, ledgerVars, klines, exVars, pc,
                 k, cross, want, ctx, attempt, polls, res, ok, snap, wcret, ev, countVars, nfaults,
                 nrec>>

\* The end of ingest_historical: _trim_series_if_needed(recalc=True).
ReconcileTrim ==
  /\ rpc = "trim"
  /\ SetSeries(trim_series(timestamps, closes))
  /\ rpc' = "idle"
  /\ UNCHANGED <<cfgVars, unitVars, order, ledgerVars, klines, exVars, pc, k, cross, want, ctx, attempt,
                 polls, res, ok, snap, wcret, ev, countVars, nfaults, rbuf, nrec>>

InitThreads == Init /\ test_mode

NextThreads ==
  \/ Start
  \/ IngestHistory
  \/ Tick
  \/ OpenOrder
  \/ CloseOrder
  \/ CloseReturn
  \/ Finish
  \/ ReconcileFetch
  \/ ReconcileAppend
  \/ ReconcileAppendClose
  \/ ReconcileTrim

SpecThreads == InitThreads /\ [][NextThreads]_vars


\* ------------------------------------------------------------ _wait_until
\* _wait_until(check_fn, timeout_sec, poll_interval_sec) run on its own.  Time
\* is counted in units of 0.05 s, the shortest interval the function sleeps.
\* check_fn is a position query: a request with a timeout, so it comes back
\* (true, false or with an exception) after at most MaxCallTime units.
MaxTimeout == 3
MaxPollInterval == 2
MaxCallTime == 1
MinInterval == 1
Timeouts == (0 - 1)..MaxTimeout
PollIntervals == 0..MaxPollInterval
MaxClock == MaxTimeout + MaxPollInterval + 2 * MaxCallTime + 2
Max(a, b) == IF a >= b THEN a ELSE b

\* A wait that would sleep for the interval it is given, however short.
WaitEnter_without_floor ==
  /\ wpc = "idle"
  /\ \E timeout_sec \in Timeouts, poll_interval_sec \in PollIntervals :
       /\ deadline' = now + Max(0, timeout_sec)
       /\ interval' = poll_interval_sec
  /\ wpc' = "check"
  /\ UNCHANGED <<exceptWait, now, wchk, wret>>

\* deadline = time.time() + max(0.0, timeout_sec); interval = max(0.05, poll)
WaitEnter ==
  /\ wpc = "idle"
  /\ \E timeout_sec \in Timeouts, poll_interval_sec \in PollIntervals :
       /\ deadline' = now + Max(0, timeout_sec)
       /\ interval' = Max(MinInterval, poll_interval_sec)
  /\ wpc' = "check"
  /\ UNCHANGED <<exceptWait, now, wchk, wret>>

\* try: if check_fn(): return True; except Exception: pass
WaitCheck ==
  /\ wpc = "check"
  /\ \E d \in 0..MaxCallTime, c \in {"true", "false", "raise"} :
       /\ now + d <= MaxClock
       /\ now' = now + d
       /\ wchk' = c
       /\ wret' = (c = "true")
       /\ wpc' = IF c = "true" THEN "done" ELSE "deadline"
  /\ UNCHANGED <<exceptWait, deadline, interval>>

\* if time.time() >= deadline: return False
WaitDeadline ==
  /\ wpc = "deadline"
  /\ wpc' = IF now >= deadline THEN "done" ELSE "sleep"
  /\ UNCHANGED <<exceptWait, now, deadline, interval, wchk, wret>>

\* time.sleep(interval): at least the interval, possibly one unit more.
WaitSleep ==
  /\ wpc = "sleep"
  /\ \E over \in 0..1 :
       /\ now + interval + over <= MaxClock
       /\ now' = now + interval + over
  /\ wpc' = "check"
  /\ UNCHANGED <<exceptWait, deadline, interval, wchk, wret>>

InitWait == Init /\ test_mode /\ use_closed_only

NextWait ==
  \/ WaitEnter
  \/ WaitCheck
  \/ WaitDeadline
  \/ WaitSleep

\* The thread that runs the call keeps running.
SpecWait == InitWait /\ [][NextWait]_vars /\ WF_vars(NextWait)


\* ----------------------------------------------------------------- status
\* The web thread serves /status with engine.status() while the stream thread
\* runs on_realtime_kline.  status() takes no lock and reads self.position
\* three times, once per field.
MaxStatus == 1

\* real_pos = get_futures_position(symbol) when live, None otherwise or when
\* the call raises.
StatusEnter ==
  /\ spc = "idle"
  /\ pc # "down"
  /\ nstatus < MaxStatus
  /\ nstatus' = nstatus + 1
  /\ srp' \in (IF live THEN get_futures_position(ex) ELSE {QNone})
  /\ spc' = "side"
  /\ UNCHANGED <<exceptStatus, sside, sentry, sqty, sout>>

\* side = self.position.side
StatusReadSide ==
  /\ spc = "side"
  /\ sside' = position.side
  /\ spc' = "entry"
  /\ UNCHANGED <<exceptStatus, srp, sentry, sqty, sout, nstatus>>

\* entry_price = self.position.entry_price
StatusReadEntry ==
  /\ spc = "entry"
  /\ sentry' = position.entry_price
  /\ spc' = "qty"
  /\ UNCHANGED <<exceptStatus, srp, sside, sqty, sout, nstatus>>

\* qty_coin = self.position.qty
StatusReadQty ==
  /\ spc = "qty"
  /\ sqty' = position.qty
  /\ spc' = "ret"
  /\ UNCHANGED <<exceptStatus, srp, sside, sentry, sout, nstatus>>

\* The rest of status(): the exchange's answer overrides the local fields.
StatusReturn ==
  /\ spc = "ret"
  /\ sout' = status([side |-> sside, entry_price |-> sentry, qty |-> sqty], srp)
  /\ spc' = "idle"
  /\ UNCHANGED <<exceptStatus, srp, sside, sentry, sqty, nstatus>>

InitStatus == Init /\ test_mode

NextStatus ==
  \/ Start
  \/ IngestHistory
  \/ Tick
  \/ OpenOrder
  \/ CloseOrder
  \/ CloseReturn
  \/ Finish
  \/ StatusEnter
  \/ StatusReadSide
  \/ StatusReadEntry
  \/ StatusReadQty
  \/ StatusReturn

SpecStatus == InitStatus /\ [][NextStatus]_vars

\* ------------------------------------------------------ _notional_and_qty
\* _notional_and_qty(price) run on its own, on every configuration of
\* QtyConfigs: notional = initial_balance * percent * leverage.
QtyConfigure ==
  /\ qcfg = NoQtyConfig
  /\ qcfg' \in QtyConfigs
  /\ UNCHANGED <<exceptQty, qret>>

QtyCall ==
  /\ qcfg # NoQtyConfig
  /\ Len(qret) < MaxQtyCalls
  /\ qret' = Append(qret,
                    notional_and_qty((qcfg.initial_balance * qcfg.percent * qcfg.leverage) \div 100,
                                     qcfg.price, qcfg.step_size, qcfg.min_notional))
  /\ UNCHANGED <<exceptQty, qcfg>>

InitQty == Init /\ test_mode /\ use_closed_only

NextQty ==
  \/ QtyConfigure
  \/ QtyCall

SpecQty == InitQty /\ [][NextQty]_vars

\* ----------------------------------------------------------------- totals
\* totals() run on its own on every small ledger: rows are written to trades
\* and wallet, then totals() is called.
MaxRows == 2
LedgerPnls == {0 - 7, 5, 12}
LedgerFees == {3, 5}
LedgerBalances == {0 - 5, 0, 40}

TotalsWriteTrade ==
  /\ tret = NoTotals
  /\ Len(trades) < MaxRows
  /\ \E sd \in {"LONG", "SHORT", "CLOSE"}, pnl \in LedgerPnls, fee \in LedgerFees :
       trades' = Append(trades, TradeRow(sd, 1, 1, fee, pnl, 0))
  /\ UNCHANGED <<cfgVars, recVars, seriesVars, exVars, countVars, position, balance, wallet,
                 postab, klines, pc, k, cross, want, ctx, attempt, polls, res, ok, snap, wcret,
                 ev, order, nfaults, unitVars>>

TotalsWriteWallet ==
  /\ tret = NoTotals
  /\ Len(wallet) < MaxRows
  /\ \E b \in LedgerBalances : wallet' = Append(wallet, b)
  /\ UNCHANGED <<cfgVars, recVars, seriesVars, exVars, countVars, position, balance, trades,
                 postab, klines, pc, k, cross, want, ctx, attempt, polls, res, ok, snap, wcret,
                 ev, order, nfaults, unitVars>>

TotalsCall ==
  /\ tret = NoTotals
  /\ tret' = totals(trades, wallet)
  /\ UNCHANGED exceptTotals

InitTotals == Init /\ test_mode /\ use_closed_only

NextTotals ==
  \/ TotalsWriteTrade
  \/ TotalsWriteWallet
  \/ TotalsCall

SpecTotals == InitTotals /\ [][NextTotals]_vars

\* -------------------------------------------------------------- indicators
\* sma, ema and crossover run on their own.
IndChooseSeries ==
  /\ iin = NoIn /\ iout = NoIndOut
  /\ \E values \in SampleSeries, period \in Periods :
       iin' = [NoIn EXCEPT !.values = values, !.period = period]
  /\ UNCHANGED <<exceptInd, iout>>

IndChooseLists ==
  /\ iin = NoIn /\ iout = NoIndOut
  /\ \/ \E el \in Lists, ml \in Lists, eps \in Epsilons :
          iin' = [NoIn EXCEPT !.el = el, !.ml = ml, !.eps = eps]
     \/ iin' \in RisingInputs
  /\ UNCHANGED <<exceptInd, iout>>

\* sma(values, period) returns its list, or raises.
IndSma ==
  /\ iout = NoIndOut
  /\ iout' = IF sma_raises(iin.values, iin.period)
             THEN [NoIndOut EXCEPT !.fn = "sma", !.kind = "ZeroDivisionError"]
             ELSE [NoIndOut EXCEPT !.fn = "sma", !.kind = "list",
                                   !.val = sma(iin.values, iin.period)]
  /\ UNCHANGED <<exceptInd, iin>>

\* ema(values, period) returns its list, or raises.
IndEma ==
  /\ iout = NoIndOut
  /\ iout' = IF ema_raises(iin.values, iin.period)
             THEN [NoIndOut EXCEPT !.fn = "ema", !.kind = "ValueError"]
             ELSE [NoIndOut EXCEPT !.fn = "ema", !.kind = "list",
                                   !.val = ema(iin.values, iin.period)]
  /\ UNCHANGED <<exceptInd, iin>>

\* crossover(ema_list, ma_list, eps) returns a CrossSignal.
IndCrossover ==
  /\ iout = NoIndOut
  /\ iout' = [NoIndOut EXCEPT !.fn = "crossover", !.kind = "CrossSignal",
                              !.cross = crossover_eps(iin.el, iin.ml, iin.eps)]
  /\ UNCHANGED <<exceptInd, iin>>

InitIndicators == Init /\ test_mode /\ use_closed_only

NextIndicators ==
  \/ IndChooseSeries
  \/ IndChooseLists
  \/ IndSma
  \/ IndEma
  \/ IndCrossover

SpecIndicators == InitIndicators /\ [][NextIndicators]_vars

\* ------------------------------------------------- crashes between writes
\* _open_position and _close_position in test mode, one durable write at a
\* time (each of _insert_trade, _insert_wallet, _clear_position and
\* _save_position commits on its own), and a process that can die between two
\* of them and be started again on the same database.
OpenInsertTrade ==
  /\ pc = "open_order"
  /\ LET exec_price == k.close
         exec_qty == order_qty(k.close)
         fee == exec_price * exec_qty
     IN /\ balance' = balance - fee
        /\ trades' = Append(trades, TradeRow(want, exec_price, exec_qty, fee, 0 - fee,
                                             balance - fee))
  /\ pc' = "open_wallet"
  /\ UNCHANGED <<cfgVars, unitVars, order, recVars, seriesVars, position, wallet, postab, klines,
                 exVars, k, cross, want, ctx, attempt, polls, res, ok, snap, wcret, ev,
                 countVars, nfaults>>

OpenInsertWallet ==
  /\ pc = "open_wallet"
  /\ wallet' = Append(wallet, balance)
  /\ position' = Position(want, Last(trades).price, Last(trades).qty, Last(trades).fee)
  /\ pc' = "open_clear"
  /\ UNCHANGED <<cfgVars, unitVars, order, recVars, seriesVars, balance, trades, postab, klines,
                 exVars, k, cross, want, ctx, attempt, polls, res, ok, snap, wcret, ev,
                 countVars, nfaults>>

OpenClearPosition ==
  /\ pc = "open_clear"
  /\ postab' = <<>>
  /\ pc' = "open_save"
  /\ UNCHANGED <<cfgVars, unitVars, order, recVars, seriesVars, position, balance, trades, wallet,
                 klines, exVars, k, cross, want, ctx, attempt, polls, res, ok, snap, wcret, ev,
                 countVars, nfaults>>

OpenSavePosition ==
  /\ pc = "open_save"
  /\ postab' = save_position(postab, position)
  /\ ok' = TRUE
  /\ ev' = [ev EXCEPT !.n_open = @ + 1]
  /\ Return("open")
  /\ UNCHANGED <<cfgVars, unitVars, order, recVars, seriesVars, position, balance, trades, wallet,
                 klines, exVars, k, cross, want, ctx, polls, res, snap, countVars, nfaults>>

CloseInsertTrade ==
  /\ pc = "close_order"
  /\ IF position.side = NoSide \/ position.entry_price = None \/ position.qty = None
     THEN /\ ok' = FALSE
          /\ NextAttempt("close_order", "close")
          /\ UNCHANGED <<balance, trades>>
     ELSE LET l == close_effect(k.close, position.qty)
          IN /\ balance' = l.balance
             /\ trades' = l.trades
             /\ pc' = "close_wallet"
             /\ UNCHANGED <<attempt, wcret, ok>>
  /\ UNCHANGED <<cfgVars, unitVars, order, recVars, seriesVars, position, wallet, postab, klines,
                 exVars, k, cross, want, ctx, polls, res, snap, ev, countVars, nfaults>>

CloseInsertWallet ==
  /\ pc = "close_wallet"
  /\ wallet' = Append(wallet, balance)
  /\ pc' = "close_clear"
  /\ UNCHANGED <<cfgVars, unitVars, order, recVars, seriesVars, position, balance, trades, postab,
                 klines, exVars, k, cross, want, ctx, attempt, polls, res, ok, snap, wcret, ev,
                 countVars, nfaults>>

CloseClearPosition ==
  /\ pc = "close_clear"
  /\ position' = Flat
  /\ postab' = <<>>
  /\ ok' = TRUE
  /\ ev' = [ev EXCEPT !.n_close = @ + 1, !.closed = TRUE]
  /\ Return("close")
  /\ UNCHANGED <<cfgVars, unitVars, order, recVars, seriesVars, balance, trades, wallet, klines,
                 exVars, k, cross, want, ctx, polls, res, snap, countVars, nfaults>>

BetweenWrites == {"open_wallet", "open_clear", "open_save", "close_wallet", "close_clear"}

\* The process dies between two writes and main() constructs the engine again.
Crash ==
  /\ pc \in BetweenWrites
  /\ nrestarts < MaxRestarts
  /\ nrestarts' = nrestarts + 1
  /\ Construct(QNone, QNone, TRUE)
  /\ UNCHANGED <<cfgVars, unitVars, recVars, klines, exVars, nticks, nmanual, nfaults>>

InitCrash == Init /\ test_mode

NextCrash ==
  \/ Start
  \/ IngestHistory
  \/ Tick
  \/ OpenInsertTrade
  \/ OpenInsertWallet
  \/ OpenClearPosition
  \/ OpenSavePosition
  \/ CloseInsertTrade
  \/ CloseInsertWallet
  \/ CloseClearPosition
  \/ CloseReturn
  \/ Finish
  \/ Crash

SpecCrash == InitCrash /\ [][NextCrash]_vars

\* =================================================================== claims
InHandler == pc \notin {"down", "hist", "idle"}
SameLedgerAsAtCall ==
  /\ position = snap.position
  /\ balance = snap.balance
  /\ Len(trades) = snap.ntrades
  /\ Len(wallet) = snap.nwallet
  /\ postab = snap.postab

\* C1: in live mode an open order for one side is never submitted while the
\* exchange holds a position on the opposite side.
C1_NoNakedOpen ==
  (pc = "open_order" /\ live) => ex[Opp(want)].amt = 0

\* C2: no two mutating operations on the engine are in progress at the same
\* time: the stream thread's on_realtime_kline and the reconciler thread's
\* ingest_historical never overlap.
C2_MutualExclusion ==
  ~(InHandler /\ rpc # "idle")

\* C3: when the exchange's answer to an order is an error, no response, a raise
\* or a response that is neither FILLED nor has a positive executed quantity,
\* _open_position / _close_position returns failure and the Position, balance,
\* trades, wallet and position table are unchanged.
C3_FailedSubmissionNoMutation ==
  [][(/\ pc \in {"open_order", "close_order"}
      /\ res'.kind # ""
      /\ ~(res'.kind = "resp" /\ (res'.status = "FILLED" \/ res'.cumQty > 0)))
     => (ok' = FALSE /\ UNCHANGED ledgerVars)]_vars

\* A close order has just been refused and the engine still holds the position
\* it held when _close_with_confirm was entered.
C3_Witness ==
  /\ pc = "close_order"
  /\ attempt = 2
  /\ res \in Failures
  /\ ~ok
  /\ position.side # NoSide
  /\ position = snap.position

\* C4: whenever _open_with_confirm or _close_with_confirm returns failure, the
\* Position, balance, trades, wallet and position table are what they were when
\* it was called.
C4_FailureLeavesNoTrace ==
  (wcret.op # "" /\ ~wcret.ok) => SameLedgerAsAtCall

C7_SingleConfirmedOpen ==
  (/\ pc = "finish" /\ live /\ nfaults = 0
   /\ wcret.op = "open" /\ want = "LONG" /\ k.is_final
   /\ ev.start = NoSide /\ ctx = "open" /\ ex["LONG"].amt > 0)
    => (/\ wcret.ok
        /\ ev.n_open = 1
        /\ Len(trades) = snap.ntrades + 1
        /\ Last(trades).side = "LONG"
        /\ Last(trades).pnl = 0 - Last(trades).fee
        /\ position.side = "LONG")

\* C8: in every reachable state, side is None if and only if entry_price is
\* None and quantity is None: a Position never has a side without an entry
\* price, or a quantity without a side.
C8_PositionInvariant ==
  /\ (position.side = NoSide) <=> (position.entry_price = None /\ position.qty = None)
  /\ position.side # NoSide => position.entry_price # None
  /\ position.qty # None => position.side # NoSide

\* C9: at the end of every engine operation the position table holds no row
\* when the Position is Flat and otherwise exactly one row equal to it.
C9_PositionPersisted ==
  (pc \in {"hist", "idle"})
    => IF position.side = NoSide THEN postab = <<>>
       ELSE postab = <<[side |-> position.side, entry_price |-> position.entry_price,
                        qty |-> position.qty, open_fee |-> position.open_fee]>>

SameAfterRestart ==
  /\ position'.side = position.side
  /\ position'.entry_price = position.entry_price
  /\ position'.qty = position.qty
  /\ balance' = balance
  /\ \A rp \in get_futures_position(ex) :
       status(position', rp) = status(position, rp)

\* C10: in a state reached by ticks, opens and closes alone, on an
\* account nobody else trades on and an exchange that has answered every call
\* faithfully, a restart with no new writes gives the Position, balance and
\* status() of before the restart.
C10_RecoveryIdempotent ==
  [][(pc = "idle" /\ pc' = "hist" /\ nmanual = 0 /\ nfaults' = 0) => SameAfterRestart]_vars

\* The Position p agrees with what the exchange holds: the side and quantity
\* of a side it holds, Flat when it holds nothing.
AgreesWithExchange(p) ==
  IF \E s \in Sides : ex[s].amt # 0
  THEN \E s \in Sides : ex[s].amt # 0 /\ p.side = s /\ p.qty = ex[s].amt
  ELSE p.side = NoSide

\* C11: when the engine starts in live mode and its position queries are
\* answered (no failed or incomplete answer during the start), the Position it
\* starts with agrees with the exchange, whatever the position table and the
\* trades hold.
C11_ExchangeTruthAtStartup ==
  [][(live /\ pc \in {"down", "idle"} /\ pc' = "hist" /\ nfaults' = nfaults)
     => AgreesWithExchange(position')]_vars

\* C12: _wait_until always returns: with True at the poll that observes the
\* condition, with False only once the deadline has passed, also when the
\* check raises or reports false on every poll.
C12_WaitTerminates ==
  /\ <>(wpc = "done")
  /\ [](wpc = "done" => (wret <=> wchk = "true"))
  /\ []((wpc = "done" /\ ~wret) => now >= deadline)
  /\ [][wchk' = "true" => wpc' = "done"]_vars

\* The wait slept, polled again, the check raised and the deadline had passed.
C12_Witness ==
  /\ wpc = "done" /\ ~wret
  /\ wchk = "raise"
  /\ deadline > 0
  /\ now > deadline

InCall == pc \in {"open_order", "open_poll", "close_order", "close_poll"}

\* What is left of a running call: the attempts after this one, and within
\* this one the order (when not yet sent) and the polls the deadline allows.
CallRank ==
  (max_retries - attempt) * (MaxPolls + 2)
    + (IF pc \in {"open_order", "close_order"} THEN MaxPolls + 1 ELSE MaxPolls - polls)

\* C13: one call of _open_with_confirm / _close_with_confirm makes at most
\* max_retries attempts and submits at most max_retries orders, returns failure
\* only after the last attempt, and always returns: every step inside the call
\* uses up an attempt or a poll of the bounded wait.
C13_BoundedRetries ==
  /\ [](attempt <= max_retries)
  /\ [](ev.n_open <= max_retries /\ ev.n_close <= max_retries)
  /\ [][(wcret.op = "" /\ wcret'.op # "" /\ ~wcret'.ok) => attempt = max_retries]_vars
  /\ [](InCall => CallRank >= 0)
  /\ [][(InCall /\ InCall') => CallRank' < CallRank]_vars

\* Every attempt of an open submitted an order, none was confirmed, and the
\* call has returned failure.
C13_Witness ==
  /\ pc = "finish"
  /\ wcret = [op |-> "open", ok |-> FALSE]
  /\ attempt = max_retries
  /\ ev.n_open = max_retries
  /\ Len(trades) = snap.ntrades + max_retries

\* The Positions the engine has held at some instant of a run in test mode on
\* a fresh database: Flat, and the Position every open trade row stands for.
EverHeld ==
  {[side |-> Flat.side, entry_price |-> Flat.entry_price, qty |-> Flat.qty]} \cup
  {[side |-> trades[i].side, entry_price |-> trades[i].price, qty |-> trades[i].qty] :
     i \in {j \in 1..Len(trades) : trades[j].side \in Sides}}

\* C14: the side, entry price and quantity a status() call reports are those of
\* one Position the engine held at some instant, never a mixture of the
\* Position before and after an open or close running on the stream thread.
C14_StatusSnapshot ==
  (spc = "idle" /\ sout # NoOut) => sout \in EverHeld

\* The mirror of is_rising: the last `lookback` values are defined and
\* non-increasing.
is_falling(series, lookback) ==
  /\ Len(series) >= lookback
  /\ \A i \in (Len(series) - lookback + 1)..Len(series) : ~IsNone(series[i])
  /\ \A i \in (Len(series) - lookback + 1)..(Len(series) - 1) : Leq(series[i + 1], series[i])

PriceR == [n |-> k.close, d |-> 1]

\* The gate of an entry from Flat, read in the claim's favour: a price equal to
\* an average counts as above (below) it.
EntryGate(side) ==
  IF side = "LONG"
  THEN /\ cross.golden_cross
       /\ is_rising(ema_list, 3)
       /\ Leq(Last(ema_list), PriceR) /\ Leq(Last(ma_list), PriceR)
  ELSE /\ cross.death_cross
       /\ is_falling(ema_list, 3)
       /\ Leq(PriceR, Last(ema_list)) /\ Leq(PriceR, Last(ma_list))

\* C15: with the slope filter enabled, an evaluation that starts Flat submits
\* an open for a side only when that side's cross fired, the EMA was
\* non-decreasing (non-increasing for a short) over the last three values and
\* the price was not below (not above) both averages.
C15_GatedEntry ==
  (use_slope /\ pc = "open_order" /\ ~ev.rev) => EntryGate(want)

\* A non-final tick is being handled with use_closed_only enabled.
ClosedOnlyTick == use_closed_only /\ k # NoK /\ ~k.is_final

\* C16 (as stated): with use_closed_only enabled a non-final tick changes
\* nothing but the live price and the in-progress candle: the series, the
\* Position and every table are left as they were and no order is submitted.
C16_NonFinalTickChangesNothing ==
  /\ [](ClosedOnlyTick => pc \in {"sync", "finish"})
  /\ [][(ClosedOnlyTick \/ ClosedOnlyTick')
        => UNCHANGED <<seriesVars, ledgerVars, klines, ex, exWallet>>]_vars

\* C16 (amended): with use_closed_only enabled a non-final tick leaves the
\* series, the trades, the balance, the wallet and the klines unchanged and
\* submits no order; the Position and the position table change only when the
\* engine, live and Flat, adopts a position the exchange reports.
C16_NonFinalTickFrame ==
  /\ [](ClosedOnlyTick => pc \in {"sync", "finish"})
  /\ [][(ClosedOnlyTick \/ ClosedOnlyTick')
        => /\ UNCHANGED <<seriesVars, balance, trades, wallet, klines, ex, exWallet>>
           /\ \/ UNCHANGED <<position, postab>>
              \/ /\ pc = "sync" /\ position.side = NoSide
                 /\ position'.side # NoSide
                 /\ postab' = overwrite_position(position')]_vars

\* A non-final tick arrived with use_closed_only enabled while a cross stood
\* on the closed series, and its handling is about to end.
C16_Witness ==
  /\ ClosedOnlyTick
  /\ pc = "finish"
  /\ cross.golden_cross \/ cross.death_cross

\* Neither cross fired, or the only cross that fired asks for the side held.
NoSignalFor(cr, side) ==
  \/ ~cr.golden_cross /\ ~cr.death_cross
  \/ cr.golden_cross /\ ~cr.death_cross /\ side = "LONG"
  \/ cr.death_cross /\ ~cr.golden_cross /\ side = "SHORT"

\* The step of on_realtime_kline that evaluates the signal: the entry step
\* when there is no position sync to do, the sync step otherwise.
SignalStep ==
  \/ pc = "idle" /\ pc' \notin {"idle", "sync", "hist"}
  \/ pc = "sync"

C18_AtMostOneCross ==
  ~(cross.golden_cross /\ cross.death_cross)

QtyNotional == (qcfg.initial_balance * qcfg.percent * qcfg.leverage) \div 100

\* q is the largest multiple of the step whose notional does not exceed n.
IsFloorQty(q, n) ==
  /\ q >= 0 /\ q % qcfg.step_size = 0
  /\ qcfg.price * q <= n
  /\ qcfg.price * (q + qcfg.step_size) > n

\* q is the smallest multiple of the step whose notional reaches min_notional.
IsRaisedQty(q) ==
  /\ q >= 0 /\ q % qcfg.step_size = 0
  /\ qcfg.price * q >= qcfg.min_notional
  /\ q >= qcfg.step_size => qcfg.price * (q - qcfg.step_size) < qcfg.min_notional

\* C19: for one configuration and price every call of _notional_and_qty
\* returns the same quantity; it is a multiple of the step, its notional is at
\* least min_notional, and it is notional/price floored to the step unless that
\* falls short of min_notional, in which case it is min_notional/price rounded
\* up to the step.
C19_QuantityRounding ==
  \A i \in 1..Len(qret) :
    /\ qret[i] = qret[1]
    /\ qret[i] % qcfg.step_size = 0
    /\ qcfg.price * qret[i] >= qcfg.min_notional
    /\ \/ IsFloorQty(qret[i], QtyNotional)
       \/ /\ \E q \in 0..qret[i] : IsFloorQty(q, QtyNotional)
                                     /\ qcfg.price * q < qcfg.min_notional
          /\ IsRaisedQty(qret[i])

\* The spec's example: min_notional 10, step 0.001, price 20000 and a notional
\* of 8 (raw quantity 0.0004) give 0.001, not below 0.0005, with notional 20.
C19_Witness ==
  /\ qcfg.price = 2 /\ qcfg.step_size = 10 /\ qcfg.min_notional = 10
  /\ QtyNotional = 8
  /\ Len(qret) = MaxQtyCalls
  /\ qret[1] = 10
  /\ qret[1] >= 5 /\ qcfg.price * qret[1] >= 10

RECURSIVE SumOver(_, _)
SumOver(f, S) ==
  IF S = {} THEN 0
  ELSE LET x == CHOOSE y \in S : TRUE IN f[x] + SumOver(f, S \ {x})

CloseRows == {i \in 1..Len(trades) : trades[i].side = "CLOSE"}
ClosePnlSum == SumOver([i \in 1..Len(trades) |-> trades[i].pnl], CloseRows)
FeeSum == SumOver([i \in 1..Len(trades) |-> trades[i].fee], 1..Len(trades))
EarliestBalance == IF wallet # <<>> THEN wallet[1] ELSE initial_balance
Reorderings ==
  {p \in [1..Len(trades) -> 1..Len(trades)] : \A i, j \in 1..Len(trades) : p[i] = p[j] => i = j}

\* What a totals() call returns besides the two sums: the number of Close
\* records, the earliest wallet balance, roi = (sum of Close pnl) /
\* base_balance or 0, the same whatever the order of the records, and nothing
\* of the engine or the ledger is changed.
TotalsRest ==
  /\ tret'.trade_count = Cardinality(CloseRows)
  /\ tret'.base_balance = EarliestBalance
  /\ IF EarliestBalance > 0
     THEN tret'.roi.d # 0 /\ tret'.roi.n * EarliestBalance = ClosePnlSum * tret'.roi.d
     ELSE tret'.roi.n = 0
  /\ \A p \in Reorderings :
       totals([i \in 1..Len(trades) |-> trades[p[i]]], wallet) = tret'
  /\ UNCHANGED exceptTotals

LeqPlus(a, b, e) == a.n * b.d * e.d <= (b.n * e.d + e.n * b.d) * a.d
GeqMinus(a, b, e) == a.n * b.d * e.d >= (b.n * e.d - e.n * b.d) * a.d

PrevEma == iin.el[Len(iin.el) - 1]
CurrEma == iin.el[Len(iin.el)]
PrevMa == iin.ml[Len(iin.ml) - 1]
CurrMa == iin.ml[Len(iin.ml)]
TwoValidPoints ==
  /\ Len(iin.el) >= 2 /\ Len(iin.ml) >= 2
  /\ ~IsNone(PrevEma) /\ ~IsNone(CurrEma) /\ ~IsNone(PrevMa) /\ ~IsNone(CurrMa)

\* C21: crossover looks at the last two points of each list only; golden_cross
\* is true exactly when previous ema <= previous sma + eps and current ema >=
\* current sma - eps, death_cross exactly when previous ema >= previous sma -
\* eps and current ema <= current sma + eps; both are false when a list has
\* fewer than two points or one of the four values is None.  On the closes
\* 10,10,10,10,10,12,14,16,18,20 with EMA(3) and SMA(5), golden_cross is true
\* on the tick where ema[-2] <= sma[-2] and ema[-1] > sma[-1].
C21_Crossover ==
  iout.fn = "crossover" =>
    /\ iout.cross = crossover_eps(LastN(iin.el, 2), LastN(iin.ml, 2), iin.eps)
    /\ IF TwoValidPoints
       THEN /\ iout.cross.golden_cross <=> (/\ LeqPlus(PrevEma, PrevMa, iin.eps)
                                            /\ GeqMinus(CurrEma, CurrMa, iin.eps))
            /\ iout.cross.death_cross <=> (/\ GeqMinus(PrevEma, PrevMa, iin.eps)
                                           /\ LeqPlus(CurrEma, CurrMa, iin.eps))
       ELSE iout.cross = NoCross
    /\ (/\ iin \in RisingInputs /\ TwoValidPoints
        /\ PrevEma.n * PrevMa.d <= PrevMa.n * PrevEma.d
        /\ CurrEma.n * CurrMa.d > CurrMa.n * CurrEma.d)
         => iout.cross.golden_cross

\* The sixth close of the rising run: EMA(3) goes from 10 to 11, SMA(5) from
\* 10 to 10.4, and crossover reports the golden cross alone.
C21_Witness ==
  /\ iout.fn = "crossover"
  /\ iin.values = SubSeq(RisingCloses, 1, 6)
  /\ PrevEma.n = 10 * PrevEma.d /\ CurrEma.n = 11 * CurrEma.d
  /\ PrevMa.n = 10 * PrevMa.d /\ 5 * CurrMa.n = 52 * CurrMa.d
  /\ iout.cross = [golden_cross |-> TRUE, death_cross |-> FALSE]

\* The sum of the samples of iin.values with index in S.
SampleSum(S) == SumOver([j \in 1..Len(iin.values) |-> iin.values[j]], S)

\* C22: for a period p >= 1, ema(S, p) has the length of S, is None before
\* index p-1, is the mean of the first p samples at index p-1 (the value of
\* sma(S, p) there), and after it ema[i] = S[i]*k + ema[i-1]*(1-k) with
\* k = 2/(p+1).  (Indices from 1 here: p-1 is p.)
C22_EmaRecurrence ==
  (iout.fn = "ema" /\ iin.period >= 1) =>
    /\ iout.kind = "list"
    /\ Len(iout.val) = Len(iin.values)
    /\ \A i \in 1..Len(iin.values) :
         LET e == iout.val[i]
         IN IF i < iin.period THEN IsNone(e)
            ELSE IF i = iin.period
            THEN /\ ~IsNone(e)
                 /\ e.n * iin.period = SampleSum(1..iin.period) * e.d
                 /\ LET m == sma(iin.values, iin.period)[i]
                    IN ~IsNone(m) /\ e.n * m.d = m.n * e.d
            ELSE LET prev == iout.val[i - 1]
                 IN /\ ~IsNone(e) /\ ~IsNone(prev)
                    /\ (iin.period + 1) * e.n * prev.d
                         = (2 * iin.values[i] * prev.d + (iin.period - 1) * prev.n) * e.d

\* ema(<<1, 3, 3>>, 2): None, the seed 2 = (1 + 3) / 2, then 3*2/3 + 2/3 = 8/3.
C22_Witness ==
  /\ iout.fn = "ema" /\ iin.period = 2 /\ iin.values = <<1, 3, 3>>
  /\ IsNone(iout.val[1])
  /\ iout.val[2].n = 2 * iout.val[2].d
  /\ 3 * iout.val[3].n = 8 * iout.val[3].d

C24_NonPositivePeriodFailsFast ==
  (iout.fn \in {"ema", "sma"} /\ iin.period <= 0) => iout.kind # "list"

C26_VerifiedBeforeClose ==
  /\ (live /\ order.kind = "close") => ctx \in {"rev", "flat"}
  /\ ev.cleared => ev.n_close = 0
  /\ (ev.cleared /\ ev.n_open = 0) => position = Flat

\* on_realtime_kline has been entered in live mode with a Flat Position.
TickWhileFlat == pc = "idle" /\ nticks' = nticks + 1 /\ live /\ position.side = NoSide

\* The position query of the sync step was answered faithfully: a position the
\* exchange holds is adopted, with its side, quantity and entry price and an
\* open fee of zero, the position table is overwritten with it, and the
\* evaluation that follows does not open from Flat; when the exchange holds
\* nothing the Position and the table are left alone.
SyncAdopts ==
  (pc = "sync" /\ nfaults' = nfaults) =>
    IF \E s \in Sides : ex[s].amt # 0
    THEN /\ \E s \in Sides :
              /\ ex[s].amt # 0
              /\ position' = Position(s, ex[s].entry, ex[s].amt, 0)
         /\ postab' = <<position'>>
         /\ pc' \notin {"flat_q1", "flat_q2", "open_order"}
    ELSE UNCHANGED <<position, postab>>

\* C27 (as stated): on every tick on_realtime_kline takes in while the
\* engine is live and Flat, it queries the exchange position and adopts a
\* non-zero one before the signal is evaluated.
C27_AdoptOnEveryTick ==
  /\ [][TickWhileFlat => pc' = "sync"]_vars
  /\ [][SyncAdopts]_vars

\* C27 (amended): the query and the adoption happen on every such tick that
\* leaves the latest EMA and SMA both defined; while an average is still
\* undefined the handler returns before the query.
C27_AdoptOnceIndicatorsDefined ==
  /\ [][TickWhileFlat
        => (pc' = "sync" <=> (/\ ema_list' # <<>>
                              /\ ~IsNone(Last(ema_list'))
                              /\ ~IsNone(Last(ma_list'))))]_vars
  /\ [][TickWhileFlat => (pc' \in {"sync", "idle"} /\ UNCHANGED <<position, postab>>)]_vars
  /\ [][SyncAdopts]_vars

\* A position opened by hand at price 2 after the engine had started Flat was
\* adopted by a tick, and that tick's evaluation has ended.
C27_Witness ==
  /\ live /\ nrestarts = 0 /\ pc = "finish"
  /\ trades = <<>>
  /\ \E s \in Sides :
       /\ ex[s] = [amt |-> 1, entry |-> 2]
       /\ position = Position(s, 2, 1, 0)
  /\ postab = <<position>>

\* C28: every close order the engine submits is a reduce-only market order
\* for the quantity of the Position it holds at that moment, on the side that
\* reduces it, in hedge mode as in one-way mode; every open order is a plain
\* (not reduce-only) market order.
C28_OrderShape ==
  /\ [][(pc = "close_order" /\ live /\ ev'.n_close = ev.n_close + 1)
        => /\ order'.kind = "close"
           /\ order'.quantity = position.qty
           /\ order'.side = (IF position.side = "LONG" THEN "SELL" ELSE "BUY")
           /\ order'.reduce_only]_vars
  /\ [](order.kind = "open" => ~order.reduce_only)

FromRecord == restore_open_position(postab, trades, Flat)
FromTrades == restore_open_position(<<>>, trades, Flat)

\* C30: on a ledger written by the engine's own opens and closes, recovery
\* from the current-position record and recovery by inference from the trades
\* give the same Position (side, entry price, quantity, open fee), Flat
\* included: at every instant in test mode, at every instant of a live run
\* in which nothing but opens and closes has written the record (no manual
\* trade, no exchange fault, no start-up sync of a restart), and in any run
\* right after each open or close the engine records.
C30_DualPathRecoveryAgrees ==
  /\ []((test_mode \/ (nmanual = 0 /\ nfaults = 0 /\ nrestarts = 0))
          => FromRecord = FromTrades)
  /\ [][Len(trades') > Len(trades) => FromRecord' = FromTrades']_vars

\* After an open, a close and a second open the record and the trades both
\* give the second open.
C30_Witness ==
  /\ pc = "idle"
  /\ Len(trades) = 3
  /\ trades[2].side = "CLOSE"
  /\ postab # <<>>
  /\ FromRecord.side = trades[3].side /\ FromRecord.side # trades[1].side
  /\ FromTrades = FromRecord

\* The gross price delta of closing pos at the price and quantity of row r,
\* in the unit of the ledger's money.
GrossDelta(pos, r) ==
  IF pos.side = "LONG" THEN (r.price - pos.entry_price) * r.qty * FeeDen
  ELSE (pos.entry_price - r.price) * r.qty * FeeDen

\* The step was a confirmed open or close: _open_position / _close_position
\* returned True.
ConfirmedStep == pc \in {"open_order", "close_order"} /\ pc' # pc /\ ok'

\* C31: a step appends to the trades exactly when it is a confirmed open or
\* close, and then it appends one Trade record and one Wallet snapshot whose
\* balance is the record's balance_after; an open record carries pnl = -fee,
\* a Close record carries the gross price delta minus its own fee minus the
\* open fee stored on the Position that was held (0 for an adopted one).
C31_TradeRecordPnl ==
  [][/\ ConfirmedStep <=> trades' # trades
     /\ trades' # trades =>
          LET r == Last(trades')
          IN /\ trades' = Append(trades, r)
             /\ wallet' = Append(wallet, r.balance_after)
             /\ r.balance_after = balance'
             /\ r.side \in Sides => r.pnl = 0 - r.fee
             /\ r.side \notin Sides =>
                  /\ r.side = "CLOSE"
                  /\ r.pnl = GrossDelta(position, r) - r.fee - OrElse(position.open_fee, 0)]_vars

\* A Long opened and then closed at another price: the Close record's pnl is
\* the price delta less both fees.
C31_Witness ==
  /\ Len(trades) = 2
  /\ trades[1].side = "LONG" /\ trades[2].side = "CLOSE"
  /\ trades[2].price # trades[1].price
  /\ trades[1].pnl = 0 - trades[1].fee
  /\ trades[2].pnl = (trades[2].price - trades[1].price) * trades[2].qty * FeeDen
                       - trades[2].fee - trades[1].fee
  /\ wallet[Len(wallet)] = trades[2].balance_after

\* C32: the timestamps of the accepted candles are strictly increasing in
\* close_time, whatever ingest_historical and on_realtime_kline were handed.
C32_TimestampsStrictlyIncreasing ==
  \A i \in 1..(Len(timestamps) - 1) : timestamps[i] < timestamps[i + 1]

\* C33: between two calls the four series have one length, at most
\* series_maxlen, and ema_list[i], ma_list[i] are the EMA and the SMA of the
\* retained closes up to index i.
C33_SeriesAligned ==
  /\ Len(timestamps) = Len(closes)
  /\ Len(ema_list) = Len(closes)
  /\ Len(ma_list) = Len(closes)
  /\ Len(closes) <= series_maxlen
  /\ \A i \in 1..Len(closes) :
       /\ ema_list[i] = Last(ema(SubSeq(closes, 1, i), ema_period))
       /\ ma_list[i] = Last(sma(SubSeq(closes, 1, i), ma_period))

\* The series has been trimmed: its oldest candle is gone and the SMA of the
\* oldest retained candle is undefined again.
C33_Witness ==
  /\ pc = "idle"
  /\ Len(timestamps) = series_maxlen
  /\ timestamps[1] > 1
  /\ IsNone(ma_list[1]) /\ ~IsNone(ma_list[2])

\* The quantity executed by the orders of the running *_with_confirm call:
\* every filled order has written one Trade record with its executed quantity.
ExecutedByCall ==
  SumSeq([i \in 1..(Len(trades) - snap.ntrades) |-> trades[snap.ntrades + i].qty])

\* C34: when _open_with_confirm returns in live mode, the quantity of the
\* local Position is the total quantity the orders of that call executed on
\* the exchange.
C34_OpenExposureRecorded ==
  (pc = "finish" /\ live /\ wcret.op = "open")
    => (IF position.side = want THEN position.qty ELSE 0) = ExecutedByCall

\* C35: in the trades ledger opens and closes alternate: no two open records
\* without a CLOSE between them, no two CLOSE records without an open between
\* them.
C35_LedgerAlternates ==
  \A i \in 1..(Len(trades) - 1) :
    (trades[i].side \in Sides) # (trades[i + 1].side \in Sides)

\* The trades say a position is open: the most recent open record has no
\* later CLOSE record.
OpenByTrades ==
  LET i == LastOpenIdx(trades, Len(trades))
  IN i > 0 /\ \A j \in (i + 1)..Len(trades) : trades[j].side # "CLOSE"

\* The engine has just been constructed again after a crash between two
\* writes of an open or a close.
Recovered == pc = "hist" /\ nrestarts > 0 /\ trades # <<>>

\* C36: restarted in test mode after a crash between two durable writes, the
\* engine holds a Position exactly when the most recent open Trade record has
\* no later CLOSE record, and its balance is the balance_after of the most
\* recent Trade record.
C36_CrashRecovery ==
  Recovered =>
    /\ (position.side # NoSide) <=> OpenByTrades
    /\ balance = Last(trades).balance_after

\* Every close of the series has the same price.
ConstantCloses(cs) == \A i \in 1..Len(cs) : cs[i] = cs[1]

\* C37: in test mode an evaluation over a series whose closes all have the
\* same price leaves a Flat engine Flat: the tick starts no open, and no Trade
\* record is written by it.
C37_FlatOnConstantSeries ==
  [][(/\ test_mode
      /\ pc = "idle" /\ pc' # "idle" /\ pc' # "hist"
      /\ position = Flat
      /\ ConstantCloses(closes'))
       => (pc' = "finish" /\ ~cross'.golden_cross /\ ~cross'.death_cross)]_vars

\* The gross price deltas of all closes, each taken against the open record
\* before it.
GrossSum ==
  SumOver([i \in 1..Len(trades) |->
             IF i > 1
             THEN Signed(trades[i - 1].side, trades[i].price - trades[i - 1].price)
                    * trades[i].qty * FeeDen
             ELSE 0],
          CloseRows)

\* C38: in test mode the balance is the earliest wallet snapshot plus the pnl
\* of all CLOSE records less the open fee of the Position held (0 when Flat);
\* equally, the earliest snapshot less all fees plus the gross price deltas
\* of all closes.
C38_BalanceIdentity ==
  test_mode =>
    /\ balance = EarliestBalance + ClosePnlSum - OrElse(position.open_fee, 0)
    /\ balance = EarliestBalance - FeeSum + GrossSum

\* After an open, a close at another price, a second open and a restart.
C38_Witness ==
  /\ test_mode /\ pc = "idle" /\ nrestarts = 1
  /\ Len(trades) = 3
  /\ trades[2].price # trades[1].price
  /\ position.side # NoSide /\ position.open_fee = trades[3].fee
  /\ balance = wallet[1] + trades[2].pnl - trades[3].fee

\* How many rows of the klines table carry close_time ct.
KlineRows(tab, ct) == Cardinality({i \in 1..Len(tab) : tab[i] = ct})

\* on_realtime_kline returns at once from a final candle it has taken into
\* the series (closed-only mode: only final candles change the series).
ReturnsAtOnceFromFinal ==
  /\ pc = "idle" /\ pc' = "idle" /\ nticks' = nticks + 1
  /\ use_closed_only /\ closes' # closes

\* on_realtime_kline returns from a final candle at its end.
ReturnsFromFinal == pc = "finish" /\ pc' = "idle" /\ k.is_final

\* C39: when on_realtime_kline returns from a final candle, the klines table
\* holds exactly one row with that candle's close_time, also when the
\* indicators had no defined value yet and when the candle was delivered
\* before.
C39_OneRowPerFinalCandle ==
  [][/\ ReturnsAtOnceFromFinal => KlineRows(klines', Last(timestamps')) = 1
     /\ ReturnsFromFinal => KlineRows(klines', k.close_time) = 1]_vars

\* Both threads are between two calls.
BothReturned == pc = "idle" /\ rpc = "idle"

\* C40: whatever the interleaving of ingest_historical on the reconciler
\* thread with on_realtime_kline on the stream thread, once both calls have
\* returned the four series have one length and the indicator lists are
\* those of the closes.
C40_SeriesConsistentAfterRace ==
  BothReturned =>
    /\ Len(timestamps) = Len(closes)
    /\ Len(ema_list) = Len(closes)
    /\ Len(ma_list) = Len(closes)
    /\ ema_list = ema(closes, ema_period)
    /\ ma_list = sma(closes, ma_period)

=============================================================================
